---- MODULE Spec2Model ----
(***************************************************************************)
(* Voice transcription reporting: the transcription validator              *)
(* (apps/web/src/lib/validation.ts), the date snapshot (dateUtils) and the *)
(* record lifecycle of MeetingsService (create, daily statistics, the      *)
(* background sync task and the syncToGoogleSheets pass).                  *)
(*                                                                         *)
(* A text is a sequence of characters; a character is a one-character      *)
(* string.  A value that JavaScript leaves null or undefined is Null, a    *)
(* present value v is Some(v).                                             *)
(***************************************************************************)
EXTENDS Integers, Sequences, FiniteSets, TLC

Null == <<>>
Some(v) == <<v>>

\* The choice of a greedy group, (.+) for (.+?).
Max(S) == CHOOSE x \in S : \A y \in S : y <= x

Min(S) == CHOOSE x \in S : \A y \in S : x <= y

(***************************************************************************)
(* Characters                                                              *)
(***************************************************************************)
LowerLetters ==
  {"a", "b", "c", "d", "e", "f", "g", "h", "i", "j", "k", "l", "m",
   "n", "o", "p", "q", "r", "s", "t", "u", "v", "w", "x", "y", "z"}

UpperLetters ==
  {"A", "B", "C", "D", "E", "F", "G", "H", "I", "J", "K", "L", "M",
   "N", "O", "P", "Q", "R", "S", "T", "U", "V", "W", "X", "Y", "Z"}

Digits == {"0", "1", "2", "3", "4", "5", "6", "7", "8", "9"}

\* What String.prototype.trim strips, the regular expression class \s
\* matches and parseInt skips: WhiteSpace and LineTerminator of ECMAScript.
\* A character outside ASCII, and the vertical tab, is written by its code
\* point.
WhiteSpace ==
  {" ", "\t", "\n", "\r", "\f", "U+000B", "U+00A0", "U+1680", "U+2000",
   "U+2001", "U+2002", "U+2003", "U+2004", "U+2005", "U+2006", "U+2007",
   "U+2008", "U+2009", "U+200A", "U+2028", "U+2029", "U+202F", "U+205F",
   "U+3000", "U+FEFF"}

\* What the regular expression "." does not match.
LineTerminators == {"\n", "\r", "U+2028", "U+2029"}

toLowerCase(c) ==
  CASE c = "A" -> "a" [] c = "B" -> "b" [] c = "C" -> "c" [] c = "D" -> "d"
    [] c = "E" -> "e" [] c = "F" -> "f" [] c = "G" -> "g" [] c = "H" -> "h"
    [] c = "I" -> "i" [] c = "J" -> "j" [] c = "K" -> "k" [] c = "L" -> "l"
    [] c = "M" -> "m" [] c = "N" -> "n" [] c = "O" -> "o" [] c = "P" -> "p"
    [] c = "Q" -> "q" [] c = "R" -> "r" [] c = "S" -> "s" [] c = "T" -> "t"
    [] c = "U" -> "u" [] c = "V" -> "v" [] c = "W" -> "w" [] c = "X" -> "x"
    [] c = "Y" -> "y" [] c = "Z" -> "z" [] OTHER -> c

toUpperCase(c) ==
  CASE c = "a" -> "A" [] c = "b" -> "B" [] c = "c" -> "C" [] c = "d" -> "D"
    [] c = "e" -> "E" [] c = "f" -> "F" [] c = "g" -> "G" [] c = "h" -> "H"
    [] c = "i" -> "I" [] c = "j" -> "J" [] c = "k" -> "K" [] c = "l" -> "L"
    [] c = "m" -> "M" [] c = "n" -> "N" [] c = "o" -> "O" [] c = "p" -> "P"
    [] c = "q" -> "Q" [] c = "r" -> "R" [] c = "s" -> "S" [] c = "t" -> "T"
    [] c = "u" -> "U" [] c = "v" -> "V" [] c = "w" -> "W" [] c = "x" -> "X"
    [] c = "y" -> "Y" [] c = "z" -> "Z" [] OTHER -> c

digitValue(c) ==
  CASE c = "0" -> 0 [] c = "1" -> 1 [] c = "2" -> 2 [] c = "3" -> 3
    [] c = "4" -> 4 [] c = "5" -> 5 [] c = "6" -> 6 [] c = "7" -> 7
    [] c = "8" -> 8 [] c = "9" -> 9

(***************************************************************************)
(* String.prototype.trim                                                   *)
(***************************************************************************)
RECURSIVE trimStart(_)
trimStart(s) ==
  IF s # <<>> /\ Head(s) \in WhiteSpace THEN trimStart(Tail(s)) ELSE s

RECURSIVE trimEnd(_)
trimEnd(s) ==
  IF s # <<>> /\ s[Len(s)] \in WhiteSpace
  THEN trimEnd(SubSeq(s, 1, Len(s) - 1))
  ELSE s

\* trim as a hand-written strip of blanks would do it: only " " goes.
RECURSIVE trimBlanksOnly(_)
trimBlanksOnly(s) ==
  IF s # <<>> /\ Head(s) = " " THEN trimBlanksOnly(Tail(s))
  ELSE IF s # <<>> /\ s[Len(s)] = " "
  THEN trimBlanksOnly(SubSeq(s, 1, Len(s) - 1))
  ELSE s

\* trim that strips the front only.
trimLeading(s) == trimStart(s)

trim(s) == trimEnd(trimStart(s))

(***************************************************************************)
(* REQUIRED_PATTERN                                                        *)
(*   /^my name is (.+?) and i belong to group (.+?) and today i met (.+?)  *)
(*    at (.+?)\.?$/i                                                       *)
(* The four literal parts, and the match a backtracking matcher finds:     *)
(* each of the first three groups is the shortest span that lets the rest  *)
(* of the pattern match, the fourth runs to the end of the string less one *)
(* final period.                                                           *)
(***************************************************************************)
PatMyNameIs == <<"m", "y", " ", "n", "a", "m", "e", " ", "i", "s", " ">>
PatGroup == <<" ", "a", "n", "d", " ", "i", " ", "b", "e", "l", "o", "n", "g", " ", "t", "o", " ", "g", "r", "o", "u", "p", " ">>
PatMet == <<" ", "a", "n", "d", " ", "t", "o", "d", "a", "y", " ", "i", " ", "m", "e", "t", " ">>
PatAt == <<" ", "a", "t", " ">>

\* The literal as the pattern without its i flag would match it.
LitAtCaseSensitive(s, i, lit) ==
  /\ i >= 1
  /\ i + Len(lit) - 1 <= Len(s)
  /\ \A k \in 1..Len(lit) : s[i + k - 1] = lit[k]

\* The literal lit (lower case) stands at position i of s, ignoring case.
LitAt(s, i, lit) ==
  /\ i >= 1
  /\ i + Len(lit) - 1 <= Len(s)
  /\ \A k \in 1..Len(lit) : toLowerCase(s[i + k - 1]) = lit[k]

\* Every character of s[i..j] is one "." matches.
DotSpan(s, i, j) == \A k \in i..j : s[k] \notin LineTerminators

\* (.+?)\.?$ from position i: the last position of the group, 0 for no match.
LocationEnd(s, i) ==
  IF i > Len(s) \/ ~DotSpan(s, i, Len(s)) THEN 0
  ELSE IF Len(s) > i /\ s[Len(s)] = "." THEN Len(s) - 1
  ELSE Len(s)

\* The positions where " at " may start after a third group that begins at i.
MetEnds(s, i) ==
  {j \in (i + 1)..Len(s) :
     /\ LitAt(s, j, PatAt)
     /\ DotSpan(s, i, j - 1)
     /\ LocationEnd(s, j + Len(PatAt)) # 0}

GroupEnds(s, i) ==
  {j \in (i + 1)..Len(s) :
     /\ LitAt(s, j, PatMet)
     /\ DotSpan(s, i, j - 1)
     /\ MetEnds(s, j + Len(PatMet)) # {}}

NameEnds(s, i) ==
  {j \in (i + 1)..Len(s) :
     /\ LitAt(s, j, PatGroup)
     /\ DotSpan(s, i, j - 1)
     /\ GroupEnds(s, j + Len(PatGroup)) # {}}

\* The pattern without its ^ anchor: the match may begin anywhere in s.
REQUIRED_PATTERNUnanchored(s) ==
  LET starts == {i \in 1..Len(s) :
                   /\ LitAt(s, i, PatMyNameIs)
                   /\ NameEnds(s, i + Len(PatMyNameIs)) # {}}
  IN  IF starts = {} THEN Null
      ELSE
        LET a  == Min(starts) + Len(PatMyNameIs)
            j1 == Min(NameEnds(s, a))
            b  == j1 + Len(PatGroup)
            j2 == Min(GroupEnds(s, b))
            c  == j2 + Len(PatMet)
            j3 == Min(MetEnds(s, c))
            d  == j3 + Len(PatAt)
        IN  Some(<<SubSeq(s, a, j1 - 1), SubSeq(s, b, j2 - 1),
                   SubSeq(s, c, j3 - 1), SubSeq(s, d, LocationEnd(s, d))>>)

\* s.match(REQUIRED_PATTERN): Null, or the four captured groups.
REQUIRED_PATTERN(s) ==
  LET a == Len(PatMyNameIs) + 1 IN
  IF ~LitAt(s, 1, PatMyNameIs) \/ NameEnds(s, a) = {} THEN Null
  ELSE
    LET j1 == Min(NameEnds(s, a))
        b  == j1 + Len(PatGroup)
        j2 == Min(GroupEnds(s, b))
        c  == j2 + Len(PatMet)
        j3 == Min(MetEnds(s, c))
        d  == j3 + Len(PatAt)
    IN  Some(<<SubSeq(s, a, j1 - 1), SubSeq(s, b, j2 - 1),
               SubSeq(s, c, j3 - 1), SubSeq(s, d, LocationEnd(s, d))>>)

(***************************************************************************)
(* The semantic checks of the extracted fields                             *)
(***************************************************************************)
NameChars == LowerLetters \cup UpperLetters \cup WhiteSpace \cup {"-", ".", "'"}

LocationChars ==
  LowerLetters \cup UpperLetters \cup Digits \cup WhiteSpace
    \cup {"-", ".", ",", "'"}

\* isValidName with "<" for "<=" at the upper length.
isValidNameBelowHundred(name) ==
  /\ Len(name) >= 2
  /\ Len(name) < 100
  /\ \A k \in 1..Len(name) : name[k] \in NameChars

isValidName(name) ==
  /\ Len(name) >= 2
  /\ Len(name) <= 100
  /\ \A k \in 1..Len(name) : name[k] \in NameChars

\* parseInt(str, 10): leading white space is skipped, one sign is read, then
\* the longest run of digits; what follows the digits is ignored.  NaN when
\* there is no digit.
RECURSIVE digitRun(_, _)
digitRun(s, acc) ==
  IF s # <<>> /\ Head(s) \in Digits
  THEN digitRun(Tail(s), 10 * acc + digitValue(Head(s)))
  ELSE acc

parseInt(str) ==
  LET s    == trimStart(str)
      neg  == s # <<>> /\ Head(s) = "-"
      body == IF s # <<>> /\ Head(s) \in {"-", "+"} THEN Tail(s) ELSE s
  IN  IF body = <<>> \/ Head(body) \notin Digits
      THEN [nan |-> TRUE, value |-> 0]
      ELSE [nan |-> FALSE,
            value |-> IF neg THEN 0 - digitRun(body, 0) ELSE digitRun(body, 0)]

isValidGroupNumber(groupStr) ==
  LET groupNum == parseInt(groupStr) IN
  ~groupNum.nan /\ groupNum.value > 0 /\ groupNum.value <= 999

\* isValidLocation with the length limit of isValidName.
isValidLocationAsName(location) ==
  /\ Len(location) >= 2
  /\ Len(location) <= 100
  /\ \A k \in 1..Len(location) : location[k] \in LocationChars

isValidLocation(location) ==
  /\ Len(location) >= 2
  /\ Len(location) <= 200
  /\ \A k \in 1..Len(location) : location[k] \in LocationChars

\* validateExtractedData returning at the first failing check.
validateExtractedDataFirstOnly(data) ==
  IF ~isValidName(data.speakerName) THEN <<"Invalid speaker name">>
  ELSE IF ~isValidGroupNumber(data.groupNumber)
  THEN <<"Group number must be a valid number">>
  ELSE IF ~isValidName(data.personMet) THEN <<"Invalid person name">>
  ELSE IF ~isValidLocation(data.location) THEN <<"Invalid location">>
  ELSE <<>>

validateExtractedData(data) ==
  (IF ~isValidName(data.speakerName) THEN <<"Invalid speaker name">> ELSE <<>>)
  \o (IF ~isValidGroupNumber(data.groupNumber)
      THEN <<"Group number must be a valid number">> ELSE <<>>)
  \o (IF ~isValidName(data.personMet) THEN <<"Invalid person name">> ELSE <<>>)
  \o (IF ~isValidLocation(data.location) THEN <<"Invalid location">> ELSE <<>>)

(***************************************************************************)
(* validateTranscription.  A message is the sequence of the pieces whose   *)
(* concatenation is the string; the empty string is the empty sequence.    *)
(***************************************************************************)
\* The two characters outside ASCII that open a message, by code point.
CheckMark == "U+2705"
CrossMark == "U+274C"

TemplateString ==
  "My name is [name] and I belong to group [#] and today I met [name] at [location]."

FormatHint ==
  <<CrossMark, " Please follow the exact format: \"", TemplateString, "\"">>

SuccessMessage ==
  <<CheckMark, " Perfect! The message follows the required format.">>

IssuesPrefix == "Format is correct but data has issues: "

\* errors.join(",")
RECURSIVE joinWithoutBlank(_)
joinWithoutBlank(errors) ==
  IF errors = <<>> THEN <<>>
  ELSE IF Len(errors) = 1 THEN <<errors[1]>>
  ELSE <<errors[1], ",">> \o joinWithoutBlank(Tail(errors))

\* errors.join(", ")
RECURSIVE join(_)
join(errors) ==
  IF errors = <<>> THEN <<>>
  ELSE IF Len(errors) = 1 THEN <<errors[1]>>
  ELSE <<errors[1], ", ">> \o join(Tail(errors))

validateTranscription(text) ==
  LET trimmedText == trim(text) IN
  IF trimmedText = <<>>
  THEN [isValid |-> FALSE, message |-> <<>>, extractedData |-> Null,
        errors |-> Null]
  ELSE
    LET match == REQUIRED_PATTERN(trimmedText) IN
    IF match # Null
    THEN
      LET extractedData ==
            [speakerName |-> trim(match[1][1]),
             groupNumber |-> trim(match[1][2]),
             personMet   |-> trim(match[1][3]),
             location    |-> trim(match[1][4])]
          errors == validateExtractedData(extractedData)
      IN  IF Len(errors) > 0
          THEN [isValid |-> FALSE,
                message |-> <<IssuesPrefix>> \o join(errors),
                extractedData |-> Some(extractedData),
                errors |-> Some(errors)]
          ELSE [isValid |-> TRUE, message |-> SuccessMessage,
                extractedData |-> Some(extractedData), errors |-> Null]
    ELSE [isValid |-> FALSE, message |-> FormatHint,
          extractedData |-> Null, errors |-> Null]

(***************************************************************************)
(* Inputs of the validator: sentences built from the template              *)
(*   "My name is <A> and I belong to group <B> and today I met <C> at <D>" *)
(* with the fixed words in one of four letter cases, up to MaxDots final   *)
(* periods and white space around, and texts that are no such sentence.    *)
(***************************************************************************)
MaxDots == 2

TplMyNameIs == <<"M", "y", " ", "n", "a", "m", "e", " ", "i", "s", " ">>
TplGroup == <<" ", "a", "n", "d", " ", "I", " ", "b", "e", "l", "o", "n", "g", " ", "t", "o", " ", "g", "r", "o", "u", "p", " ">>
TplMet == <<" ", "a", "n", "d", " ", "t", "o", "d", "a", "y", " ", "I", " ", "m", "e", "t", " ">>
TplAt == <<" ", "a", "t", " ">>

SpeakerSamples ==
  {<<"J", "o", "h", "n", " ", "S", "m", "i", "t", "h">>, <<"J", "o", "U+2028", "A", "n", "n">>, <<"J", "o", "U+000B", "A", "n", "n">>, <<"J">>, <<"A", "l", " ", "a", "n", "d", " ", "I", " ", "b", "e", "l", "o", "n", "g", " ", "t", "o", " ", "g", "r", "o", "u", "p", " ", "x">>, <<"J", "o", "\n", "A", "n", "n">>}

GroupSamples == {<<"5">>, <<"9", "9", "9">>, <<"1", "0", "0", "0">>, <<"a", "b", "c">>}

PersonSamples == {<<"S", "a", "r", "a", "h", " ", "J", "o", "h", "n", "s", "o", "n">>, <<"P", "a", "t", " ", "a", "t">>}

LocationSamples == {<<"t", "h", "e", " ", "c", "o", "f", "f", "e", "e", " ", "s", "h", "o", "p">>, <<"A", ".">>, <<"c", "a", "f", "e", " ", "a", "t", " ", "n", "o", "o", "n">>, <<"x", "!">>}

LeadSamples == {<<>>, <<" ">>}

TrailSamples == {<<>>, <<"\t", "\n">>}

\* Texts that are no sentence of the template, or one whose fields carry
\* white space: words before "My name is", a clause missing, a field
\* missing, fields with blanks around them, a field of one blank.
PrefixedText == <<"H", "i", ",", " ", "m", "y", " ", "n", "a", "m", "e", " ", "i", "s", " ", "J", "o", " ", "a", "n", "d", " ", "I", " ", "b", "e", "l", "o", "n", "g", " ", "t", "o", " ", "g", "r", "o", "u", "p", " ", "5", " ", "a", "n", "d", " ", "t", "o", "d", "a", "y", " ", "I", " ", "m", "e", "t", " ", "A", "l", " ", "a", "t", " ", "h", "o", "m", "e", ".">>
MissingClauseText == <<"M", "y", " ", "n", "a", "m", "e", " ", "i", "s", " ", "J", "o", " ", "a", "n", "d", " ", "t", "o", "d", "a", "y", " ", "I", " ", "m", "e", "t", " ", "A", "l", " ", "a", "t", " ", "h", "o", "m", "e", ".">>
MissingFieldText == <<"M", "y", " ", "n", "a", "m", "e", " ", "i", "s", " ", "a", "n", "d", " ", "I", " ", "b", "e", "l", "o", "n", "g", " ", "t", "o", " ", "g", "r", "o", "u", "p", " ", "5", " ", "a", "n", "d", " ", "t", "o", "d", "a", "y", " ", "I", " ", "m", "e", "t", " ", "A", "l", " ", "a", "t", " ", "h", "o", "m", "e", ".">>
SpacedFieldsText == <<"M", "y", " ", "n", "a", "m", "e", " ", "i", "s", " ", " ", "J", "o", " ", " ", "a", "n", "d", " ", "I", " ", "b", "e", "l", "o", "n", "g", " ", "t", "o", " ", "g", "r", "o", "u", "p", " ", " ", "5", " ", "a", "n", "d", " ", "t", "o", "d", "a", "y", " ", "I", " ", "m", "e", "t", " ", " ", "A", "l", " ", " ", "a", "t", " ", " ", "H", "o", "m", "e", " ", ".">>
BlankFieldText == <<"M", "y", " ", "n", "a", "m", "e", " ", "i", "s", " ", " ", " ", "a", "n", "d", " ", "I", " ", "b", "e", "l", "o", "n", "g", " ", "t", "o", " ", "g", "r", "o", "u", "p", " ", "5", " ", "a", "n", "d", " ", "t", "o", "d", "a", "y", " ", "I", " ", "m", "e", "t", " ", "A", "l", " ", "a", "t", " ", "h", "o", "m", "e">>

RawSamples ==
  {<<>>, <<" ">>, <<" ", "\t", "\n", " ">>, <<"\n">>, <<"U+000B">>,
   <<"U+2028", "U+FEFF", "U+00A0">>,
   PrefixedText, MissingClauseText, MissingFieldText, SpacedFieldsText,
   BlankFieldText,
   <<"H", "i", ",", " ", "m", "y", " ", "n", "a", "m", "e", " ", "i", "s", " ", "J", "o", "h", "n", " ", "a", "n", "d", " ", "I", " ", "m", "e", "t", " ", "S", "a", "r", "a", "h", " ", "t", "o", "d", "a", "y", ".">>}

\* Letter cases of the fixed words: 0 as the template writes them, 1 lower
\* case, 2 upper case, 3 alternating.
Styles == 0..3

Styled(lit, style) ==
  [k \in 1..Len(lit) |->
     CASE style = 1 -> toLowerCase(lit[k])
       [] style = 2 -> toUpperCase(lit[k])
       [] style = 3 -> IF k % 2 = 1 THEN toUpperCase(lit[k])
                       ELSE toLowerCase(lit[k])
       [] OTHER -> lit[k]]

Periods(n) == [k \in 1..n |-> "."]

Sentence(a, b, c, d, style, dots) ==
  Styled(TplMyNameIs, style) \o a \o Styled(TplGroup, style) \o b
    \o Styled(TplMet, style) \o c \o Styled(TplAt, style) \o d
    \o Periods(dots)

TemplateInputs ==
  [kind : {"template"}, speaker : SpeakerSamples, group : GroupSamples,
   person : PersonSamples, place : LocationSamples, style : Styles,
   dots : 0..MaxDots, lead : LeadSamples, trail : TrailSamples,
   raw : {<<>>}]

RawInputs ==
  [kind : {"raw"}, speaker : {<<>>}, group : {<<>>}, person : {<<>>},
   place : {<<>>}, style : {0}, dots : {0}, lead : {<<>>}, trail : {<<>>},
   raw : RawSamples]

Inputs == TemplateInputs \cup RawInputs

TextOf(in) ==
  IF in.kind = "raw" THEN in.raw
  ELSE in.lead
         \o Sentence(in.speaker, in.group, in.person, in.place, in.style,
                     in.dots)
         \o in.trail

(***************************************************************************)
(* The date snapshot.  An instant is a number of hours since               *)
(* 1970-01-01T00:00Z, a Date at UTC midnight is a number of days since     *)
(* then, a time zone is the number of hours the host's clock is ahead of   *)
(* UTC.  An ISO date string YYYY-MM-DD is the record of its three numbers. *)
(***************************************************************************)
civilFromDays(days) ==
  LET z   == days + 719468
      era == z \div 146097
      doe == z - era * 146097
      yoe == (doe - doe \div 1460 + doe \div 36524 - doe \div 146096) \div 365
      doy == doe - (365 * yoe + yoe \div 4 - yoe \div 100)
      mp  == (5 * doy + 2) \div 153
      d   == doy - (153 * mp + 2) \div 5 + 1
      m   == IF mp < 10 THEN mp + 3 ELSE mp - 9
  IN  [year |-> yoe + era * 400 + (IF m <= 2 THEN 1 ELSE 0),
       month |-> m, day |-> d]

daysFromCivil(date) ==
  LET y   == IF date.month <= 2 THEN date.year - 1 ELSE date.year
      era == y \div 400
      yoe == y - era * 400
      mp  == IF date.month > 2 THEN date.month - 3 ELSE date.month + 9
      doy == (153 * mp + 2) \div 5 + date.day - 1
      doe == yoe * 365 + yoe \div 4 - yoe \div 100 + doy
  IN  era * 146097 + doe - 719468

WeekdayNames ==
  <<"Sunday", "Monday", "Tuesday", "Wednesday", "Thursday", "Friday",
    "Saturday">>

\* date.toISOString().split("T")[0]: the calendar day in UTC.
formatDatabaseDate(now) == civilFromDays(now \div 24)

\* The calendar day the host's local clock shows: getFullYear, getMonth + 1,
\* getDate and the weekday of toLocaleDateString.
localDay(now, tz) == (now + tz) \div 24

getCurrentDateData(now, tz) ==
  [recordingDate     |-> formatDatabaseDate(now),
   recordingDateTime |-> now,
   year              |-> civilFromDays(localDay(now, tz)).year,
   month             |-> civilFromDays(localDay(now, tz)).month,
   day               |-> civilFromDays(localDay(now, tz)).day,
   dayOfWeek         |-> WeekdayNames[((localDay(now, tz) + 4) % 7) + 1]]

HourOf(y, m, d, h) ==
  daysFromCivil([year |-> y, month |-> m, day |-> d]) * 24 + h

\* The instants at which records are created, and the host's time zones.
Instants == {HourOf(2025, 7, 27, 22), HourOf(2025, 7, 28, 3)}

\* Hours east of UTC.
TimeZones == {0 - 8, 0, 9}

(***************************************************************************)
(* MeetingsService                                                         *)
(***************************************************************************)
\* The sink stops taking rows that repeat a record once it holds this many.
MaxDuplicates == 1
\* The records that exist when the scheduler is studied on its own.
MaxRecords == 3
\* "take: 100" of syncToGoogleSheets.
BatchSize == 100

\* Two concurrent createMeetingRecord calls, and two syncToGoogleSheets
\* invocations, which the scheduler and POST /meetings/sync-to-sheets start
\* whether or not another one is under way.
CallIds == {1, 2}
PassIds == {1, 2}

ValidText == <<"M", "y", " ", "n", "a", "m", "e", " ", "i", "s", " ", "J", "o", " ", "a", "n", "d", " ", "I", " ", "b", "e", "l", "o", "n", "g", " ", "t", "o", " ", "g", "r", "o", "u", "p", " ", "5", " ", "a", "n", "d", " ", "t", "o", "d", "a", "y", " ", "I", " ", "m", "e", "t", " ", "A", "l", " ", "a", "t", " ", "h", "o", "m", "e", ".">>

ShortNameText ==
  <<"M", "y", " ", "n", "a", "m", "e", " ", "i", "s", " ", "J", " ", "a", "n", "d", " ", "I", " ", "b", "e", "l", "o", "n", "g", " ", "t", "o", " ", "g", "r", "o", "u", "p", " ", "5", " ", "a", "n", "d", " ", "t", "o", "d", "a", "y", " ", "I", " ", "m", "e", "t", " ", "A", "l", " ", "a", "t", " ", "h", "o", "m", "e", ".">>

NoFormatText == <<"H", "i", ",", " ", "m", "y", " ", "n", "a", "m", "e", " ", "i", "s", " ", "J", "o", " ", "a", "n", "d", " ", "I", " ", "m", "e", "t", " ", "A", "l", " ", "t", "o", "d", "a", "y", ".">>

\* The transcriptions submitted to createMeetingRecord.
CallTexts == {ValidText, ShortNameText, NoFormatText}

Now == "new Date()"

\* The record with speakerName and personMet taken from each other's field.
NewRecordSwappingNames(id, dto, validationResult, dateData, audioFileUrl) ==
  [id                |-> id,
   recordingDate     |-> daysFromCivil(dateData.recordingDate),
   recordingDateTime |-> dateData.recordingDateTime,
   year              |-> dateData.year,
   month             |-> dateData.month,
   day               |-> dateData.day,
   dayOfWeek         |-> dateData.dayOfWeek,
   speakerName       |-> validationResult.extractedData[1].personMet,
   groupNumber       |-> validationResult.extractedData[1].groupNumber,
   personMet         |-> validationResult.extractedData[1].speakerName,
   location          |-> validationResult.extractedData[1].location,
   fullTranscription |-> dto.fullTranscription,
   recordingDuration |-> dto.recordingDuration,
   audioFileUrl      |-> audioFileUrl,
   status            |-> "SUBMITTED",
   processingStatus  |-> "PENDING",
   syncedToSheets    |-> FALSE,
   googleSheetsRowId |-> Null,
   sheetsLastSync    |-> Null]

NewRecord(id, dto, validationResult, dateData, audioFileUrl) ==
  [id                |-> id,
   recordingDate     |-> daysFromCivil(dateData.recordingDate),
   recordingDateTime |-> dateData.recordingDateTime,
   year              |-> dateData.year,
   month             |-> dateData.month,
   day               |-> dateData.day,
   dayOfWeek         |-> dateData.dayOfWeek,
   speakerName       |-> validationResult.extractedData[1].speakerName,
   groupNumber       |-> validationResult.extractedData[1].groupNumber,
   personMet         |-> validationResult.extractedData[1].personMet,
   location          |-> validationResult.extractedData[1].location,
   fullTranscription |-> dto.fullTranscription,
   recordingDuration |-> dto.recordingDuration,
   audioFileUrl      |-> audioFileUrl,
   status            |-> "SUBMITTED",
   processingStatus  |-> "PENDING",
   syncedToSheets    |-> FALSE,
   googleSheetsRowId |-> Null,
   sheetsLastSync    |-> Null]

formatMeetingRecord(record) ==
  [id                |-> record.id,
   recordingDate     |-> civilFromDays(record.recordingDate),
   recordingDateTime |-> record.recordingDateTime,
   speakerName       |-> record.speakerName,
   groupNumber       |-> record.groupNumber,
   personMet         |-> record.personMet,
   location          |-> record.location,
   fullTranscription |-> record.fullTranscription,
   recordingDuration |-> record.recordingDuration,
   year              |-> record.year,
   month             |-> record.month,
   day               |-> record.day,
   dayOfWeek         |-> record.dayOfWeek,
   status            |-> record.status,
   processingStatus  |-> record.processingStatus,
   audioFileUrl      |-> record.audioFileUrl,
   googleSheetsRowId |-> record.googleSheetsRowId,
   syncedToSheets    |-> record.syncedToSheets,
   sheetsLastSync    |-> record.sheetsLastSync]

\* The upsert as a read followed by a write of the row of a first recording:
\* the row is written, never incremented.
updateDailyStatisticsNoIncrement(stats, date) ==
  LET dateObj == daysFromCivil(date)
      row == [totalRecordings |-> 1, successfulRecordings |-> 1,
              failedRecordings |-> 0, uniqueGroups |-> 1, uniqueSpeakers |-> 1,
              averageDuration |-> 0]
  IN  [d \in DOMAIN stats \cup {dateObj} |->
         IF d = dateObj THEN row ELSE stats[d]]

\* The upsert whose update counts the recording but not its success.
updateDailyStatisticsTotalOnly(stats, date) ==
  LET dateObj == daysFromCivil(date) IN
  IF dateObj \in DOMAIN stats
  THEN [stats EXCEPT ![dateObj] = [@ EXCEPT !.totalRecordings = @ + 1]]
  ELSE stats @@ (dateObj :>
         [totalRecordings |-> 1, successfulRecordings |-> 1,
          failedRecordings |-> 0, uniqueGroups |-> 1, uniqueSpeakers |-> 1,
          averageDuration |-> 0])

\* prisma.dailyStats.upsert keyed by the date: one atomic storage operation.
updateDailyStatistics(stats, date) ==
  LET dateObj == daysFromCivil(date) IN
  IF dateObj \in DOMAIN stats
  THEN [stats EXCEPT ![dateObj] =
          [@ EXCEPT !.totalRecordings = @ + 1,
                    !.successfulRecordings = @ + 1]]
  ELSE stats @@ (dateObj :>
         [totalRecordings |-> 1, successfulRecordings |-> 1,
          failedRecordings |-> 0, uniqueGroups |-> 1, uniqueSpeakers |-> 1,
          averageDuration |-> 0])

\* findMany({where: {syncedToSheets: false}, orderBy: {recordingDate: "asc"},
\* take}): the unsynced records, earliest recordingDate first, at most take
\* of them.  The storage engine orders records of one date as it likes.
Unsynced(recs) == {id \in 1..Len(recs) : ~recs[id].syncedToSheets}

\* The same without orderBy: the unsynced records as they were created.
findUnsyncedInCreationOrder(recs, take) ==
  LET q == SelectSeq([id \in 1..Len(recs) |-> id],
                     LAMBDA id : ~recs[id].syncedToSheets)
  IN  {SubSeq(q, 1, Min({take, Len(q)}))}

\* The records of S that share their recordingDate with another one of S.
SameDate(recs, S) ==
  {id \in S :
     \E other \in S :
       other # id /\ recs[other].recordingDate = recs[id].recordingDate}

\* The sequence base with the records of tied, which share their dates, in
\* every order that keeps each of them among the records of its date.
TiesPermuted(recs, base, tied) ==
  {[k \in 1..Len(base) |->
      IF base[k] \in tied THEN pi[base[k]] ELSE base[k]] :
     pi \in {f \in Permutations(tied) :
               \A id \in tied :
                 recs[f[id]].recordingDate = recs[id].recordingDate}}

\* The unsynced records, earliest recordingDate first, in every order of
\* the records of one date.
UnsyncedByDate(recs) ==
  UNION {TiesPermuted(recs, base, tied) :
           base \in {SortSeq(SelectSeq([id \in 1..Len(recs) |-> id],
                                       LAMBDA id : ~recs[id].syncedToSheets),
                             LAMBDA a, b :
                               recs[a].recordingDate < recs[b].recordingDate)},
           tied \in {SameDate(recs, Unsynced(recs))}}

findUnsynced(recs, take) ==
  {SubSeq(q, 1, Min({take, Len(q)})) : q \in UnsyncedByDate(recs)}

IdleCall ==
  [pc |-> "idle", dto |-> Null, validationResult |-> Null, dateData |-> Null,
   audioFileUrl |-> Null, meetingRecord |-> Null, response |-> Null,
   error |-> Null]

IdlePass ==
  [pc |-> "idle", batch |-> <<>>, i |-> 0, synced |-> 0, errors |-> 0,
   rowId |-> 0, log |-> <<>>]

\* useVoiceRecording before any recording: the state of the hook, its refs,
\* the MediaRecorder objects and streams made so far, and the startRecording
\* calls that wait for the microphone.
IdleRecorder ==
  [isRecording |-> FALSE, recordingDuration |-> 0, audioData |-> Null,
   isProcessing |-> FALSE, error |-> Null,
   mediaRecorderRef |-> Null, streamRef |-> Null, audioChunksRef |-> <<>>,
   startTimeRef |-> Null, timerIntervalRef |-> FALSE, intervals |-> 0,
   starting |-> <<>>, mediaRecorders |-> <<>>, streams |-> <<>>]

\* useTranscriptionValidation before any input: the state of the hook, the
\* effect that waits to run, the submitRecord calls and the requests sent.
IdleForm ==
  [transcription |-> <<>>,
   validationResult |->
     [isValid |-> FALSE, message |-> <<>>, extractedData |-> Null,
      errors |-> Null],
   extractedData |-> Null, isSubmitting |-> FALSE, submitSuccess |-> FALSE,
   error |-> Null, effectPending |-> FALSE, timeouts |-> 0,
   submits |-> <<>>, sent |-> <<>>]

VARIABLES
  input,       \* the validator's input, as it was built
  text,        \* the text handed to validateTranscription
  result,      \* Null, or Some(the ValidationResult returned)
  tz,          \* the host's time zone
  records,     \* the MeetingRecord table, in order of creation; id = index
  dailyStats,  \* the DailyStats table: date -> row
  sink,        \* the rows of the external sheet: the record id of each row
  rejects,     \* the record ids whose push the sink refuses every time
  calls,       \* the createMeetingRecord calls
  tasks,       \* record id -> position of its background task
  passes,      \* the syncToGoogleSheets invocations
  listing,     \* Null, or Some(the last getMeetings call)
  recorder,    \* the useVoiceRecording hook
  form         \* the useTranscriptionValidation hook

vars ==
  <<input, text, result, tz, records, dailyStats, sink, rejects, calls, tasks,
    passes, listing, recorder, form>>

validatorVars == <<input, text, result>>
serviceVars ==
  <<tz, records, dailyStats, sink, rejects, calls, tasks, passes, listing>>

NoInput ==
  [kind |-> "raw", speaker |-> <<>>, group |-> <<>>, person |-> <<>>,
   place |-> <<>>, style |-> 0, dots |-> 0, lead |-> <<>>, trail |-> <<>>,
   raw |-> <<>>]

ValidatorIdle == input = NoInput /\ text = <<>> /\ result = Null

hookVars == <<recorder, form>>

HooksIdle == recorder = IdleRecorder /\ form = IdleForm

ServiceEmpty ==
  /\ records = <<>>
  /\ dailyStats = <<>>
  /\ sink = <<>>
  /\ rejects = {}
  /\ calls = [c \in CallIds |-> IdleCall]
  /\ tasks = <<>>
  /\ passes = [p \in PassIds |-> IdlePass]
  /\ listing = Null

(***************************************************************************)
(* The validator applied to one input                                      *)
(***************************************************************************)
InitValidate ==
  /\ input \in Inputs
  /\ text = TextOf(input)
  /\ result = Null
  /\ tz = 0
  /\ HooksIdle
  /\ ServiceEmpty

Validate ==
  /\ result = Null
  /\ result' = Some(validateTranscription(text))
  /\ UNCHANGED <<input, text>>
  /\ UNCHANGED <<serviceVars, hookVars>>

NextValidate == Validate

SpecValidate == InitValidate /\ [][NextValidate]_vars

(***************************************************************************)
(* The validator applied to a text with white space put around it          *)
(***************************************************************************)
PadSamples ==
  {<<>>, <<" ">>, <<"\t", "\n">>, <<"\n", " ", " ">>, <<"U+00A0", "U+000B">>,
   <<"U+2029", "U+3000", "U+FEFF">>}

PaddedInputs ==
  [kind : {"raw"}, speaker : {<<>>}, group : {<<>>}, person : {<<>>},
   place : {<<>>}, style : {0}, dots : {0}, lead : PadSamples,
   trail : PadSamples, raw : RawSamples \cup CallTexts]

InitPadded ==
  /\ input \in PaddedInputs
  /\ text = input.lead \o input.raw \o input.trail
  /\ result = Null
  /\ tz = 0
  /\ HooksIdle
  /\ ServiceEmpty

NextPadded == Validate

SpecPadded == InitPadded /\ [][NextPadded]_vars

(***************************************************************************)
(* createMeetingRecord, one step per stretch between two awaits.  A        *)
(* storage call takes effect at one instant between its request and the    *)
(* resumption of its caller.                                               *)
(***************************************************************************)
CreateFailed ==
  [code |-> "BAD_REQUEST", message |-> <<"Failed to create meeting record">>,
   details |-> Null]

\* `/uploads/audio/audio_${Date.now()}_${audioFile.originalname}`
AudioFileUrl == <<"/uploads/audio/audio_${Date.now()}_${originalname}">>

\* createMeetingRecord with the validation inside its try block: the catch
\* block replaces the validation error by "Failed to create meeting record".
createMeetingRecordValidatingInTry(c, txt, now, audioFile) ==
  /\ calls[c].pc = "idle"
  /\ LET dto == [fullTranscription |-> txt, recordingDuration |-> "00:05"]
         validationResult == validateTranscription(dto.fullTranscription)
         dateData == getCurrentDateData(now, tz)
     IN  calls' = [calls EXCEPT ![c] =
           IF validationResult.isValid
           THEN [@ EXCEPT !.pc = IF audioFile THEN "saving" ELSE "creating",
                          !.dto = Some(dto),
                          !.validationResult = Some(validationResult),
                          !.dateData = Some(dateData)]
           ELSE [@ EXCEPT !.pc = "rejected", !.dto = Some(dto),
                          !.validationResult = Some(validationResult),
                          !.error = Some(CreateFailed)]]
  /\ UNCHANGED <<listing, tz, records, dailyStats, sink, rejects, tasks,
                 passes>>
  /\ UNCHANGED <<validatorVars, hookVars>>

\* The call from its start to its first await: the validation, which may
\* throw, and the date snapshot; then saveAudioFile is awaited when an
\* audio file came with the request, and prisma.meetingRecord.create is
\* requested when none did.
createMeetingRecord(c, txt, now, audioFile) ==
  /\ calls[c].pc = "idle"
  /\ LET dto == [fullTranscription |-> txt, recordingDuration |-> "00:05"]
         validationResult == validateTranscription(dto.fullTranscription)
         dateData == getCurrentDateData(now, tz)
     IN  calls' = [calls EXCEPT ![c] =
           IF validationResult.isValid
           THEN [@ EXCEPT !.pc = IF audioFile THEN "saving" ELSE "creating",
                          !.dto = Some(dto),
                          !.validationResult = Some(validationResult),
                          !.dateData = Some(dateData)]
           ELSE [@ EXCEPT !.pc = "rejected", !.dto = Some(dto),
                          !.validationResult = Some(validationResult),
                          !.error = Some(
                            [code |-> "INVALID_MESSAGE_FORMAT",
                             message |-> validationResult.message,
                             details |-> validationResult.errors])]]
  /\ UNCHANGED <<listing, tz, records, dailyStats, sink, rejects, tasks,
                 passes>>
  /\ UNCHANGED <<validatorVars, hookVars>>

\* saveAudioFile has answered: prisma.meetingRecord.create is requested with
\* the url of the file.
saveAudioFile(c) ==
  /\ calls[c].pc = "saving"
  /\ calls' = [calls EXCEPT ![c] =
       [@ EXCEPT !.pc = "creating", !.audioFileUrl = Some(AudioFileUrl)]]
  /\ UNCHANGED <<listing, tz, records, dailyStats, sink, rejects, tasks,
                 passes>>
  /\ UNCHANGED <<validatorVars, hookVars>>

\* prisma.meetingRecord.create at the storage: the record is inserted with
\* the next id and is on its way back to the call, or the insert fails and
\* the catch block of the call rethrows.
create(c, ok) ==
  /\ calls[c].pc = "creating"
  /\ IF ok
     THEN LET meetingRecord ==
                NewRecord(Len(records) + 1, calls[c].dto[1],
                          calls[c].validationResult[1], calls[c].dateData[1],
                          calls[c].audioFileUrl)
          IN  /\ records' = Append(records, meetingRecord)
              /\ calls' = [calls EXCEPT ![c] =
                   [@ EXCEPT !.pc = "created",
                             !.meetingRecord = Some(meetingRecord)]]
     ELSE /\ calls' = [calls EXCEPT ![c] =
               [@ EXCEPT !.pc = "failed", !.error = Some(CreateFailed)]]
          /\ UNCHANGED records
  /\ UNCHANGED <<listing, tz, dailyStats, sink, rejects, tasks, passes>>
  /\ UNCHANGED <<validatorVars, hookVars>>

\* The call resumes with the record created: processBackgroundTasks, where
\* setImmediate queues the background task, and the request of the upsert
\* of updateDailyStatistics.
processBackgroundTasks(c) ==
  /\ calls[c].pc = "created"
  /\ tasks' = tasks @@ (calls[c].meetingRecord[1].id :> "scheduled")
  /\ calls' = [calls EXCEPT ![c] = [@ EXCEPT !.pc = "upserting"]]
  /\ UNCHANGED <<listing, tz, records, dailyStats, sink, rejects, passes>>
  /\ UNCHANGED <<validatorVars, hookVars>>

\* The end of the call with processBackgroundTasks awaited to the end of its
\* task: nothing is returned while the task is under way.
finishCreateAfterTask(c, ok) ==
  /\ calls[c].pc = "upserting"
  /\ tasks[calls[c].meetingRecord[1].id] \in {"done", "failed"}
  /\ IF ok
     THEN /\ dailyStats' =
               updateDailyStatistics(dailyStats,
                                     calls[c].dateData[1].recordingDate)
          /\ calls' = [calls EXCEPT ![c] =
               [@ EXCEPT !.pc = "returned",
                         !.response =
                           Some(formatMeetingRecord(calls[c].meetingRecord[1]))]]
     ELSE /\ calls' = [calls EXCEPT ![c] =
               [@ EXCEPT !.pc = "failed", !.error = Some(CreateFailed)]]
          /\ UNCHANGED dailyStats
  /\ UNCHANGED <<listing, tz, records, sink, rejects, tasks, passes>>
  /\ UNCHANGED <<validatorVars, hookVars>>

\* The upsert of the daily statistics succeeds and the call returns the
\* formatted record, or it throws and the catch block rethrows.
finishCreate(c, ok) ==
  /\ calls[c].pc = "upserting"
  /\ IF ok
     THEN /\ dailyStats' =
               updateDailyStatistics(dailyStats,
                                     calls[c].dateData[1].recordingDate)
          /\ calls' = [calls EXCEPT ![c] =
               [@ EXCEPT !.pc = "returned",
                         !.response =
                           Some(formatMeetingRecord(calls[c].meetingRecord[1]))]]
     ELSE /\ calls' = [calls EXCEPT ![c] =
               [@ EXCEPT !.pc = "failed", !.error = Some(CreateFailed)]]
          /\ UNCHANGED dailyStats
  /\ UNCHANGED <<listing, tz, records, sink, rejects, tasks, passes>>
  /\ UNCHANGED <<validatorVars, hookVars>>

(***************************************************************************)
(* The background task of processBackgroundTasks, one step per await:      *)
(* every failure is caught and logged inside the task.                     *)
(***************************************************************************)
\* findUnique: the task reads its record, finds none, or the read throws.
bgFindUnique(id, ok) ==
  /\ id \in DOMAIN tasks
  /\ tasks[id] = "scheduled"
  /\ tasks' = [tasks EXCEPT ![id] =
       IF ~ok THEN "failed"
       ELSE IF id \in 1..Len(records) THEN "found" ELSE "done"]
  /\ UNCHANGED <<listing, tz, records, dailyStats, sink, rejects, calls,
                 passes>>
  /\ UNCHANGED <<validatorVars, hookVars>>

\* The task with the record marked synced before the push is tried.
bgAddRecordMarkingFirst(id, ok) ==
  /\ id \in DOMAIN tasks
  /\ tasks[id] = "found"
  /\ records' = [records EXCEPT ![id] =
       [@ EXCEPT !.syncedToSheets = TRUE, !.sheetsLastSync = Some(Now)]]
  /\ IF ok
     THEN sink' = Append(sink, id) /\ tasks' = [tasks EXCEPT ![id] = "pushed"]
     ELSE UNCHANGED sink /\ tasks' = [tasks EXCEPT ![id] = "failed"]
  /\ UNCHANGED <<listing, tz, dailyStats, rejects, calls, passes>>
  /\ UNCHANGED <<validatorVars, hookVars>>

\* addRecord for the record found: the task pushes the record to the sink,
\* or the push throws and the catch block logs it.
bgAddRecord(id, ok) ==
  /\ id \in DOMAIN tasks
  /\ tasks[id] = "found"
  /\ IF ok
     THEN sink' = Append(sink, id) /\ tasks' = [tasks EXCEPT ![id] = "pushed"]
     ELSE UNCHANGED sink /\ tasks' = [tasks EXCEPT ![id] = "failed"]
  /\ UNCHANGED <<listing, tz, records, dailyStats, rejects, calls, passes>>
  /\ UNCHANGED <<validatorVars, hookVars>>

bgUpdate(id, ok) ==
  /\ id \in DOMAIN tasks
  /\ tasks[id] = "pushed"
  /\ IF ok
     THEN /\ records' = [records EXCEPT ![id] =
               [@ EXCEPT !.syncedToSheets = TRUE,
                         !.sheetsLastSync = Some(Now)]]
          /\ tasks' = [tasks EXCEPT ![id] = "done"]
     ELSE UNCHANGED records /\ tasks' = [tasks EXCEPT ![id] = "failed"]
  /\ UNCHANGED <<listing, tz, dailyStats, sink, rejects, calls, passes>>
  /\ UNCHANGED <<validatorVars, hookVars>>

(***************************************************************************)
(* syncToGoogleSheets                                                      *)
(***************************************************************************)
\* The end of one iteration of the for loop.
NextIteration(pass, counter, outcome) ==
  [pass EXCEPT !.pc = IF pass.i = Len(pass.batch) THEN "done" ELSE "push",
               !.i = @ + 1,
               !.rowId = 0,
               !.synced = IF counter = "synced" THEN @ + 1 ELSE @,
               !.errors = IF counter = "errors" THEN @ + 1 ELSE @,
               !.log = Append(@, outcome)]

\* The rows of the sheet that repeat the record of an earlier row.
Duplicates(rows) ==
  Len(rows) - Cardinality({rows[k] : k \in 1..Len(rows)})

\* The sink takes the row of a record it has no row of; it takes a row that
\* repeats a record while it holds fewer than MaxDuplicates repeated rows,
\* and it never takes a row of the records of rejects.
SinkAccepts(id) ==
  /\ id \notin rejects
  /\ (\E k \in 1..Len(sink) : sink[k] = id) =>
       Duplicates(sink) < MaxDuplicates

\* A new invocation fetches its batch; a findMany that throws ends it.
syncToGoogleSheets(p, ok) ==
  /\ passes[p].pc \in {"idle", "done", "threw"}
  /\ IF ok
     THEN \E unsyncedRecords \in findUnsynced(records, BatchSize) :
            passes' = [passes EXCEPT ![p] =
              [IdlePass EXCEPT
                 !.pc = IF unsyncedRecords = <<>> THEN "done" ELSE "push",
                 !.batch = unsyncedRecords, !.i = 1]]
     ELSE passes' = [passes EXCEPT ![p] = [IdlePass EXCEPT !.pc = "threw"]]
  /\ UNCHANGED <<listing, tz, records, dailyStats, sink, rejects, calls, tasks>>
  /\ UNCHANGED <<validatorVars, hookVars>>

\* The loop without its per-record try: a push that fails ends the pass.
syncAddRecordStoppingAtFailure(p, ok) ==
  /\ passes[p].pc = "push"
  /\ IF ok
     THEN /\ sink' = Append(sink, passes[p].batch[passes[p].i])
          /\ passes' = [passes EXCEPT ![p] =
               [@ EXCEPT !.pc = "update", !.rowId = Len(sink) + 1]]
     ELSE /\ UNCHANGED sink
          /\ passes' = [passes EXCEPT ![p] =
               [@ EXCEPT !.pc = "done", !.errors = @ + 1,
                         !.log = Append(@, "error")]]
  /\ UNCHANGED <<listing, tz, records, dailyStats, rejects, calls, tasks>>
  /\ UNCHANGED <<validatorVars, hookVars>>

\* addRecord for the record of this iteration: its row is appended and the
\* row's position is the rowId, or the push throws and the catch block counts
\* an error.
syncAddRecord(p, ok) ==
  /\ passes[p].pc = "push"
  /\ IF ok
     THEN /\ sink' = Append(sink, passes[p].batch[passes[p].i])
          /\ passes' = [passes EXCEPT ![p] =
               [@ EXCEPT !.pc = "update", !.rowId = Len(sink) + 1]]
     ELSE /\ UNCHANGED sink
          /\ passes' = [passes EXCEPT ![p] =
               NextIteration(@, "errors", "error")]
  /\ UNCHANGED <<listing, tz, records, dailyStats, rejects, calls, tasks>>
  /\ UNCHANGED <<validatorVars, hookVars>>

\* The update of a pass that also marks the record processed.
syncUpdateCompleting(p, ok) ==
  /\ passes[p].pc = "update"
  /\ IF ok
     THEN /\ records' = [records EXCEPT ![passes[p].batch[passes[p].i]] =
               [@ EXCEPT !.syncedToSheets = TRUE,
                         !.googleSheetsRowId = Some(passes[p].rowId),
                         !.sheetsLastSync = Some(Now),
                         !.processingStatus = "COMPLETED"]]
          /\ passes' = [passes EXCEPT ![p] =
               NextIteration(@, "synced", "synced")]
     ELSE /\ UNCHANGED records
          /\ passes' = [passes EXCEPT ![p] =
               NextIteration(@, "errors", "error")]
  /\ UNCHANGED <<listing, tz, dailyStats, sink, rejects, calls, tasks>>
  /\ UNCHANGED <<validatorVars, hookVars>>

syncUpdate(p, ok) ==
  /\ passes[p].pc = "update"
  /\ IF ok
     THEN /\ records' = [records EXCEPT ![passes[p].batch[passes[p].i]] =
               [@ EXCEPT !.syncedToSheets = TRUE,
                         !.googleSheetsRowId = Some(passes[p].rowId),
                         !.sheetsLastSync = Some(Now)]]
          /\ passes' = [passes EXCEPT ![p] =
               NextIteration(@, "synced", "synced")]
     ELSE /\ UNCHANGED records
          /\ passes' = [passes EXCEPT ![p] =
               NextIteration(@, "errors", "error")]
  /\ UNCHANGED <<listing, tz, dailyStats, sink, rejects, calls, tasks>>
  /\ UNCHANGED <<validatorVars, hookVars>>

(***************************************************************************)
(* The service: two concurrent calls, their background tasks and sync      *)
(* invocations that follow one another; each storage call and each push    *)
(* to the sink may fail.  Invocations that overlap are in SpecSync and      *)
(* SpecPass.                                                                *)
(***************************************************************************)
\* The concurrent calls arrive within one hour.
CallInstants == {HourOf(2025, 7, 28, 3)}

\* The host runs in UTC.
Init ==
  /\ ValidatorIdle
  /\ tz = 0
  /\ HooksIdle
  /\ ServiceEmpty

Next ==
  \/ \E c \in CallIds, txt \in CallTexts, now \in CallInstants :
       createMeetingRecord(c, txt, now, FALSE)
  \/ \E c \in CallIds, ok \in BOOLEAN : create(c, ok)
  \/ \E c \in CallIds : processBackgroundTasks(c)
  \/ \E c \in CallIds, ok \in BOOLEAN : finishCreate(c, ok)
  \/ \E id \in DOMAIN tasks, ok \in BOOLEAN : bgFindUnique(id, ok)
  \/ \E id \in DOMAIN tasks, ok \in BOOLEAN :
       bgAddRecord(id, ok /\ SinkAccepts(id))
  \/ \E id \in DOMAIN tasks, ok \in BOOLEAN : bgUpdate(id, ok)
  \/ \E ok \in BOOLEAN : syncToGoogleSheets(1, ok)
  \/ \E ok \in BOOLEAN :
       syncAddRecord(1, ok /\ SinkAccepts(passes[1].batch[passes[1].i]))
  \/ \E ok \in BOOLEAN : syncUpdate(1, ok)

Spec == Init /\ [][Next]_vars

(***************************************************************************)
(* createMeetingRecord on hosts of several time zones                      *)
(***************************************************************************)
InitDate ==
  /\ ValidatorIdle
  /\ tz \in TimeZones
  /\ HooksIdle
  /\ ServiceEmpty

NextDate ==
  \/ \E c \in CallIds, txt \in CallTexts, now \in Instants,
        audioFile \in BOOLEAN :
       createMeetingRecord(c, txt, now, audioFile)
  \/ \E c \in CallIds : saveAudioFile(c)
  \/ \E c \in CallIds, ok \in BOOLEAN : create(c, ok)
  \/ \E c \in CallIds : processBackgroundTasks(c)
  \/ \E c \in CallIds, ok \in BOOLEAN : finishCreate(c, ok)

SpecDate == InitDate /\ [][NextDate]_vars

(***************************************************************************)
(* The daily statistics: speakers of different groups record on the days   *)
(* of Instants.                                                            *)
(***************************************************************************)
OtherGroupText == <<"M", "y", " ", "n", "a", "m", "e", " ", "i", "s", " ", "A", "l", " ", "a", "n", "d", " ", "I", " ", "b", "e", "l", "o", "n", "g", " ", "t", "o", " ", "g", "r", "o", "u", "p", " ", "7", " ", "a", "n", "d", " ", "t", "o", "d", "a", "y", " ", "I", " ", "m", "e", "t", " ", "J", "o", " ", "a", "t", " ", "w", "o", "r", "k", ".">>

StatTexts == {ValidText, OtherGroupText, ShortNameText}

NextStats ==
  \/ \E c \in CallIds, txt \in StatTexts, now \in Instants,
        audioFile \in BOOLEAN :
       createMeetingRecord(c, txt, now, audioFile)
  \/ \E c \in CallIds : saveAudioFile(c)
  \/ \E c \in CallIds, ok \in BOOLEAN : create(c, ok)
  \/ \E c \in CallIds : processBackgroundTasks(c)
  \/ \E c \in CallIds, ok \in BOOLEAN : finishCreate(c, ok)

SpecStats == Init /\ [][NextStats]_vars

(***************************************************************************)
(* The scheduler on its own: records exist, each with its background task  *)
(* over (it marked the record synced, or it failed before the push), no    *)
(* call is in progress, and syncToGoogleSheets is invoked again and again, *)
(* an invocation starting whether or not the one before it has ended.      *)
(***************************************************************************)
ExistingRecord(id, now, zone, bgSynced) ==
  LET dto == [fullTranscription |-> ValidText, recordingDuration |-> "00:05"]
      created == NewRecord(id, dto, validateTranscription(ValidText),
                           getCurrentDateData(now, zone), Null)
  IN  IF bgSynced
      THEN [created EXCEPT !.syncedToSheets = TRUE,
                           !.sheetsLastSync = Some(Now)]
      ELSE created

\* The daily statistics after the calls that created the records: the row
\* that updateDailyStatistics leaves for a date after one call a record.
statsOf(recs) ==
  LET dates == {recs[id].recordingDate : id \in 1..Len(recs)}
      recordings(date) ==
        Cardinality({id \in 1..Len(recs) : recs[id].recordingDate = date})
  IN  [date \in dates |->
         [totalRecordings |-> recordings(date),
          successfulRecordings |-> recordings(date),
          failedRecordings |-> 0, uniqueGroups |-> 1, uniqueSpeakers |-> 1,
          averageDuration |-> 0]]

\* The sheet after the background tasks: the rows of the synced records, in
\* the order of creation.
rowsOf(recs) ==
  SelectSeq([id \in 1..Len(recs) |-> id], LAMBDA id : recs[id].syncedToSheets)

\* The orders in which the days of n records were submitted: oldest first
\* or newest first.
Orders(n) == {[id \in 1..n |-> id], [id \in 1..n |-> n + 1 - id]}

\* One record was recorded a day, from the day of first on; the records were
\* submitted in one of the given orders, and the background tasks of the
\* records of one of the given sets marked their records synced.
InitRecordsIn(n, orders, synced) ==
  /\ ValidatorIdle
  /\ tz = 0
  /\ HooksIdle
  /\ \E first \in Instants, bgSynced \in synced, order \in orders :
       /\ records =
            [id \in 1..n |->
               ExistingRecord(id, first + 24 * (order[id] - 1), tz,
                              id \in bgSynced)]
       /\ tasks =
            [id \in 1..n |-> IF id \in bgSynced THEN "done" ELSE "failed"]
  /\ dailyStats = statsOf(records)
  /\ sink = rowsOf(records)
  /\ calls = [c \in CallIds |-> IdleCall]
  /\ passes = [p \in PassIds |-> IdlePass]
  /\ listing = Null

InitRecords ==
  \E n \in 1..MaxRecords : InitRecordsIn(n, Orders(n), SUBSET (1..n))

\* The records that are among the n with the earliest recordingDate.
Earliest(recs, n) ==
  {id \in 1..Len(recs) :
     Cardinality({other \in 1..Len(recs) :
       recs[other].recordingDate < recs[id].recordingDate}) < n}

\* One more unsynced record than a batch holds, submitted newest first, and
\* the sink refuses all but the newest of them.
InitBacklog ==
  /\ InitRecordsIn(BatchSize + 1,
                   {[id \in 1..(BatchSize + 1) |-> BatchSize + 2 - id]}, {{}})
  /\ rejects = Earliest(records, BatchSize)

InitPass == (InitRecords /\ rejects = {}) \/ InitBacklog

\* Every push and every storage call may fail.
NextPass ==
  \/ \E p \in PassIds, ok \in BOOLEAN : syncToGoogleSheets(p, ok)
  \/ \E p \in PassIds, ok \in BOOLEAN :
       syncAddRecord(p, ok /\ SinkAccepts(passes[p].batch[passes[p].i]))
  \/ \E p \in PassIds, ok \in BOOLEAN : syncUpdate(p, ok)

SpecPass == InitPass /\ [][NextPass]_vars

\* Storage never fails and the sink refuses exactly the records of rejects;
\* the scheduler keeps invoking syncToGoogleSheets and every invocation runs
\* to its end.
NextLive ==
  \/ \E p \in PassIds : syncToGoogleSheets(p, TRUE)
  \/ \E p \in PassIds :
       syncAddRecord(p, passes[p].batch[passes[p].i] \notin rejects)
  \/ \E p \in PassIds : syncUpdate(p, TRUE)

InitLive ==
  (InitRecords /\ rejects \in SUBSET Unsynced(records)) \/ InitBacklog

SpecLive == InitLive /\ [][NextLive]_vars /\ WF_vars(NextLive)

(***************************************************************************)
(* Overlapping sync invocations next to one createMeetingRecord call and   *)
(* its background task, on a table that holds one record or none; each     *)
(* storage call and each push to the sink may fail.                        *)
(***************************************************************************)
InitSync ==
  /\ \E n \in 0..1 : InitRecordsIn(n, Orders(n), SUBSET (1..n))
  /\ rejects = {}

NextSync ==
  \/ \E txt \in CallTexts, now \in CallInstants :
       createMeetingRecord(1, txt, now, FALSE)
  \/ \E ok \in BOOLEAN : create(1, ok)
  \/ processBackgroundTasks(1)
  \/ \E ok \in BOOLEAN : finishCreate(1, ok)
  \/ \E id \in DOMAIN tasks, ok \in BOOLEAN : bgFindUnique(id, ok)
  \/ \E id \in DOMAIN tasks, ok \in BOOLEAN :
       bgAddRecord(id, ok /\ SinkAccepts(id))
  \/ \E id \in DOMAIN tasks, ok \in BOOLEAN : bgUpdate(id, ok)
  \/ \E p \in PassIds, ok \in BOOLEAN : syncToGoogleSheets(p, ok)
  \/ \E p \in PassIds, ok \in BOOLEAN :
       syncAddRecord(p, ok /\ SinkAccepts(passes[p].batch[passes[p].i]))
  \/ \E p \in PassIds, ok \in BOOLEAN : syncUpdate(p, ok)

SpecSync == InitSync /\ [][NextSync]_vars


(***************************************************************************)
(* getMeetings: one page of the records that match a query.  An absent     *)
(* query parameter is Null; a date parameter is the day its string names   *)
(* and a status parameter the one word of its name, or no word.            *)
(* findMany and count are two storage calls, each answered at an instant   *)
(* of its own; the call goes on when both have answered and ends when one  *)
(* of them throws.                                                         *)
(***************************************************************************)
MaxPage == 3
MaxLimit == 2

\* if (groupNumber), if (speakerName), if (status): an empty string is no
\* filter.
Truthy(v) == v # Null /\ v[1] # <<>>

\* { contains: part, mode: "insensitive" }
containsInsensitive(s, part) ==
  \E k \in 0..(Len(s) - Len(part)) :
    \A j \in 1..Len(part) : toLowerCase(s[k + j]) = toLowerCase(part[j])

\* The where clause.
where(record, query) ==
  /\ Truthy(query.groupNumber) => record.groupNumber = query.groupNumber[1]
  /\ Truthy(query.speakerName) =>
       containsInsensitive(record.speakerName, query.speakerName[1])
  /\ Truthy(query.status) => <<record.status>> = query.status[1]
  /\ query.startDate # Null => record.recordingDate >= query.startDate[1]
  /\ query.endDate # Null => record.recordingDate <= query.endDate[1]

\* prisma.meetingRecord.count({ where })
count(recs, query) ==
  Cardinality({id \in 1..Len(recs) : where(recs[id], query)})

\* The columns of a record, which a query may be sorted by: dates and
\* numbers, text, the day of the week, a boolean, and the columns in which
\* no two records are told apart here (the storage fills in id, createdAt and
\* updatedAt; the others are one value in every record, or absent).
NumberColumns == {"recordingDate", "recordingDateTime", "year", "month", "day"}
TextColumns ==
  {"speakerName", "groupNumber", "personMet", "location", "fullTranscription"}
BooleanColumns == {"syncedToSheets"}
OtherColumns ==
  {"id", "recordingDuration", "audioFileUrl", "status", "processingStatus",
   "validationScore", "ipAddress", "userAgent", "googleSheetsRowId",
   "sheetsLastSync", "createdAt", "updatedAt"}
Columns ==
  NumberColumns \cup TextColumns \cup {"dayOfWeek"} \cup BooleanColumns
    \cup OtherColumns

\* The names of the days as text orders them.
SortedWeekdays ==
  <<"Friday", "Monday", "Saturday", "Sunday", "Thursday", "Tuesday",
    "Wednesday">>

LowerAlphabet ==
  <<"a", "b", "c", "d", "e", "f", "g", "h", "i", "j", "k", "l", "m", "n",
    "o", "p", "q", "r", "s", "t", "u", "v", "w", "x", "y", "z">>

\* The place of a digit or a letter in the order every collation keeps:
\* the digits in their order, then the letters in theirs.
CollationWeight(c) ==
  IF c \in Digits THEN digitValue(c)
  ELSE 10 + CHOOSE k \in 1..26 : LowerAlphabet[k] = toLowerCase(c)

\* Two different characters that every collation orders alike: digits,
\* letters of one case, a digit and a letter.  The collation of the database
\* decides the others.
Collated(x, y) ==
  /\ x \in Digits \cup LowerLetters \cup UpperLetters
  /\ y \in Digits \cup LowerLetters \cup UpperLetters
  /\ toLowerCase(x) # toLowerCase(y)
  /\ (x \in UpperLetters => y \notin LowerLetters)
  /\ (x \in LowerLetters => y \notin UpperLetters)

\* Text a sorts before text b whatever the collation.
TextBefore(a, b) ==
  \/ Len(a) < Len(b) /\ SubSeq(b, 1, Len(a)) = a
  \/ \E k \in 1..Min({Len(a), Len(b)}) :
       /\ \A j \in 1..(k - 1) : a[j] = b[j]
       /\ Collated(a[k], b[k])
       /\ CollationWeight(a[k]) < CollationWeight(b[k])

\* Record x is before record y in ascending order of the column, whatever
\* the storage engine.
Before(x, y, sortBy) ==
  CASE sortBy \in TextColumns -> TextBefore(x[sortBy], y[sortBy])
    [] sortBy \in NumberColumns -> x[sortBy] < y[sortBy]
    [] sortBy = "dayOfWeek" ->
         \E j, k \in 1..7 :
           /\ j < k
           /\ SortedWeekdays[j] = x.dayOfWeek
           /\ SortedWeekdays[k] = y.dayOfWeek
    [] sortBy \in BooleanColumns -> ~x[sortBy] /\ y[sortBy]
    [] OTHER -> FALSE

\* orderBy: { [sortBy]: sortOrder }: the orders the storage may answer in.
\* It orders records that are equal in the column as it likes.
orderBy(recs, ids, sortBy, sortOrder) ==
  LET n == Cardinality(ids) IN
  {q \in [1..n -> ids] :
     \A i, j \in 1..n : i < j =>
       /\ q[i] # q[j]
       /\ IF sortOrder = "asc"
          THEN ~Before(recs[q[j]], recs[q[i]], sortBy)
          ELSE ~Before(recs[q[i]], recs[q[j]], sortBy)}

\* prisma.meetingRecord.findMany({ where, skip, take, orderBy }): the pages
\* the storage may answer with.
findMany(recs, query, skip, take, sortBy, sortOrder) ==
  LET ids == {id \in 1..Len(recs) : where(recs[id], query)}
      last == Min({skip + take, Cardinality(ids)})
  IN  {[k \in 1..(IF skip >= last THEN 0 ELSE last - skip) |->
          recs[q[skip + k]]] :
         q \in orderBy(recs, ids, sortBy, sortOrder)}

\* Math.ceil(total / limit)
ceil(total, limit) ==
  IF total % limit = 0 THEN total \div limit ELSE total \div limit + 1

\* data.map(this.formatMeetingRecord): the method is handed to map without
\* its receiver and reads this.dateUtils for the display date and time, so
\* the call for the first element throws a TypeError; an empty array is
\* mapped without any call.  Null is the throw.
mapFormatMeetingRecord(data) == IF data = <<>> THEN Some(<<>>) ELSE Null

PageOfQuery(query) == IF query.page = Null THEN 1 ELSE query.page[1]
LimitOfQuery(query) == IF query.limit = Null THEN 10 ELSE query.limit[1]
SortByOfQuery(query) ==
  IF query.sortBy = Null THEN "recordingDate" ELSE query.sortBy[1]
SortOrderOfQuery(query) ==
  IF query.sortOrder = Null THEN "desc" ELSE query.sortOrder[1]

\* The call from its start to "await Promise.all": the defaults, skip and
\* the where clause, and the requests of findMany and count.
getMeetings(query) ==
  /\ IF listing = Null THEN TRUE ELSE listing[1].outcome.kind # "pending"
  /\ listing' =
       Some([query |-> query,
             skip |-> (PageOfQuery(query) - 1) * LimitOfQuery(query),
             found |-> Null, total |-> Null,
             outcome |-> [kind |-> "pending"]])
  /\ UNCHANGED <<tz, records, dailyStats, sink, rejects, calls, tasks,
                 passes>>
  /\ UNCHANGED <<validatorVars, hookVars>>

\* The call after Promise.all, with data and total as the storage answered.
getMeetingsResponse(query, data, total) ==
  LET page == PageOfQuery(query)
      limit == LimitOfQuery(query)
      totalPages == ceil(total, limit)
      mapped == mapFormatMeetingRecord(data)
  IN  IF mapped = Null THEN [kind |-> "threw", error |-> "TypeError"]
      ELSE [kind |-> "returned",
            response |->
              [success |-> TRUE,
               data |-> mapped[1],
               pagination |->
                 [page |-> page, limit |-> limit, total |-> total,
                  totalPages |-> totalPages,
                  hasNext |-> page < totalPages,
                  hasPrev |-> page > 1]]]

\* The call when one more of its two storage calls has answered.
Answered(l) ==
  IF l.found # Null /\ l.total # Null
  THEN [l EXCEPT !.outcome =
          getMeetingsResponse(l.query, l.found[1], l.total[1])]
  ELSE l

\* findMany answers with a page of the records as they are now, or throws;
\* a column that the records do not have makes it throw.
getMeetingsFindMany(ok) ==
  /\ listing # Null
  /\ listing[1].outcome.kind = "pending"
  /\ listing[1].found = Null
  /\ LET l == listing[1]
         sortBy == SortByOfQuery(l.query)
     IN  IF ok /\ sortBy \in Columns
         THEN \E data \in findMany(records, l.query, l.skip,
                                   LimitOfQuery(l.query), sortBy,
                                   SortOrderOfQuery(l.query)) :
                listing' = Some(Answered([l EXCEPT !.found = Some(data)]))
         ELSE listing' =
                Some([l EXCEPT !.outcome =
                        [kind |-> "threw", error |-> "storage"]])
  /\ UNCHANGED <<tz, records, dailyStats, sink, rejects, calls, tasks,
                 passes>>
  /\ UNCHANGED <<validatorVars, hookVars>>

\* count answers with the number of matching records as they are now, or
\* throws.
getMeetingsCount(ok) ==
  /\ listing # Null
  /\ listing[1].outcome.kind = "pending"
  /\ listing[1].total = Null
  /\ LET l == listing[1] IN
       listing' =
         IF ok
         THEN Some(Answered([l EXCEPT !.total =
                               Some(count(records, l.query))]))
         ELSE Some([l EXCEPT !.outcome =
                      [kind |-> "threw", error |-> "storage"]])
  /\ UNCHANGED <<tz, records, dailyStats, sink, rejects, calls, tasks,
                 passes>>
  /\ UNCHANGED <<validatorVars, hookVars>>

\* The filters asked: none, or one that matches every record, some, or none,
\* and the orders asked.
NoFilter ==
  [groupNumber |-> Null, speakerName |-> Null, status |-> Null,
   startDate |-> Null, endDate |-> Null, sortBy |-> Null, sortOrder |-> Null]

July28 == daysFromCivil([year |-> 2025, month |-> 7, day |-> 28])

Filters ==
  {NoFilter,
   [NoFilter EXCEPT !.groupNumber = Some(<<>>)],
   [NoFilter EXCEPT !.groupNumber = Some(<<"5">>)],
   [NoFilter EXCEPT !.groupNumber = Some(<<"6">>)],
   [NoFilter EXCEPT !.speakerName = Some(<<"J", "O">>)],
   [NoFilter EXCEPT !.status = Some(<<"SUBMITTED">>)],
   [NoFilter EXCEPT !.status = Some(<<>>)],
   [NoFilter EXCEPT !.startDate = Some(July28)],
   [NoFilter EXCEPT !.startDate = Some(July28), !.endDate = Some(July28)],
   [NoFilter EXCEPT !.sortOrder = Some("asc")],
   [NoFilter EXCEPT !.sortBy = Some("speakerName")],
   [NoFilter EXCEPT !.sortBy = Some("groupNumber"), !.sortOrder = Some("asc")],
   [NoFilter EXCEPT !.sortBy = Some("dayOfWeek"), !.sortOrder = Some("asc")],
   [NoFilter EXCEPT !.sortBy = Some("syncedToSheets")],
   [NoFilter EXCEPT !.sortBy = Some("createdAt"), !.sortOrder = Some("asc")],
   [NoFilter EXCEPT !.sortBy = Some("nothing")]}

\* The queries asked: every page and limit up to the bounds, and the
\* defaults, with each filter.
Queries ==
  {[page |-> page, limit |-> limit, groupNumber |-> f.groupNumber,
    speakerName |-> f.speakerName, status |-> f.status,
    startDate |-> f.startDate, endDate |-> f.endDate,
    sortBy |-> f.sortBy, sortOrder |-> f.sortOrder] :
     page \in {Null} \cup {Some(n) : n \in 1..MaxPage},
     limit \in {Null} \cup {Some(n) : n \in 1..MaxLimit},
     f \in Filters}

\* One getMeetings call lists the records, which were submitted oldest
\* first and are synced, while one more is created.
InitList ==
  /\ \E n \in 0..MaxRecords :
       InitRecordsIn(n, {[id \in 1..n |-> id]}, SUBSET (1..n))
  /\ \A id \in DOMAIN records : records[id].syncedToSheets
  /\ rejects = {}

NextList ==
  \/ \E query \in Queries : listing = Null /\ getMeetings(query)
  \/ \E ok \in BOOLEAN : getMeetingsFindMany(ok)
  \/ \E ok \in BOOLEAN : getMeetingsCount(ok)
  \/ \E txt \in {OtherGroupText}, now \in CallInstants :
       createMeetingRecord(1, txt, now, FALSE)
  \/ create(1, TRUE)

SpecList == InitList /\ [][NextList]_vars

(***************************************************************************)
(* useVoiceRecording.  A handler reads the state of the last render and    *)
(* its state updates are applied together when it ends; the refs are       *)
(* written at once.  A MediaRecorder keeps its onstop handler after the    *)
(* ref to it is cleared: stop() makes it inactive and queues its stop      *)
(* event, which is delivered later.  A duration is a number of seconds.    *)
(***************************************************************************)
MaxRecordings == 2
MaxChunks == 2
MaxSeconds == 1

MicrophoneError ==
  <<"Could not access microphone. Please check permissions.">>

startTimer(r) ==
  [r EXCEPT !.startTimeRef = Some(0), !.timerIntervalRef = TRUE,
            !.intervals = @ + 1]

stopTimer(r) ==
  IF r.timerIntervalRef
  THEN [r EXCEPT !.timerIntervalRef = FALSE, !.intervals = @ - 1]
  ELSE r

\* track.stop() on every track of stream s: a MediaRecorder that records
\* from s becomes inactive and its stop event is queued.
stopTracks(r, s) ==
  [r EXCEPT
     !.streams = [@ EXCEPT ![s] = "ended"],
     !.mediaRecorders =
       [m \in DOMAIN r.mediaRecorders |->
          IF r.mediaRecorders[m].stream = s
               /\ r.mediaRecorders[m].state = "recording"
          THEN [r.mediaRecorders[m] EXCEPT !.state = "inactive",
                                           !.stopQueued = TRUE]
          ELSE r.mediaRecorders[m]]]

\* The cleanup of the stream held by streamRef.
cleanupStream(r) ==
  IF r.streamRef # Null
  THEN [stopTracks(r, r.streamRef[1]) EXCEPT !.streamRef = Null]
  ELSE r

\* stop() of a MediaRecorder that is inactive throws InvalidStateError in
\* some browsers and returns in others.
StopThrows(r, throws) ==
  /\ r.mediaRecorderRef # Null
  /\ r.isRecording
  /\ r.mediaRecorders[r.mediaRecorderRef[1]].state = "inactive"
  /\ throws

\* The body of stopRecording.
stopRecordingOf(r, throws) ==
  IF r.mediaRecorderRef # Null /\ r.isRecording
  THEN LET m == r.mediaRecorderRef[1] IN
       IF StopThrows(r, throws)
       THEN [r EXCEPT !.isProcessing = TRUE]
       ELSE stopTimer(
              [r EXCEPT
                 !.isProcessing = TRUE,
                 !.isRecording = FALSE,
                 !.mediaRecorders[m] =
                   IF @.state = "recording"
                   THEN [@ EXCEPT !.state = "inactive", !.stopQueued = TRUE]
                   ELSE @])
  ELSE r

\* The body of resetRecording; a throw of stopRecording ends it.
resetRecordingOf(r, throws) ==
  IF r.isRecording /\ StopThrows(r, throws)
  THEN stopRecordingOf(r, throws)
  ELSE LET stopped == IF r.isRecording THEN stopRecordingOf(r, throws) ELSE r
           cleaned == cleanupStream(stopped)
       IN  stopTimer(
             [cleaned EXCEPT
                !.isRecording = FALSE, !.recordingDuration = 0,
                !.audioData = Null, !.isProcessing = FALSE, !.error = Null,
                !.mediaRecorderRef = Null, !.audioChunksRef = <<>>,
                !.startTimeRef = Null])

recorderFrame ==
  /\ UNCHANGED form
  /\ UNCHANGED <<validatorVars, serviceVars>>

\* startRecording up to its await of getUserMedia: nothing keeps a second
\* call from asking again while an earlier request is pending.  The call
\* keeps the recordingDuration of the render it was made in.
startRecording ==
  /\ Len(recorder.streams) + Len(recorder.starting) < MaxRecordings
  /\ recorder' =
       [recorder EXCEPT
          !.error = Null, !.isProcessing = TRUE,
          !.starting = Append(@, [duration |-> recorder.recordingDuration])]
  /\ recorderFrame

\* How the rest of startRecording may go: getUserMedia rejects, the
\* MediaRecorder constructor throws, start() throws, or the recording
\* starts.
StartOutcomes == {"denied", "constructorThrows", "startThrows", "granted"}

RemoveAt(seq, k) ==
  [j \in 1..(Len(seq) - 1) |-> IF j < k THEN seq[j] ELSE seq[j + 1]]

\* The catch block of startRecording.
startFailed(r) ==
  [r EXCEPT !.error = Some(MicrophoneError), !.isProcessing = FALSE]

\* The rest of the k-th pending startRecording, from the answer of
\* getUserMedia on.  The stream and the chunk array are set before the
\* constructor runs and the recorder ref before start() does, so a throw
\* leaves them set.
getUserMedia(k, outcome) ==
  /\ k \in DOMAIN recorder.starting
  /\ LET pending == RemoveAt(recorder.starting, k)
         stream == Len(recorder.streams) + 1
         withStream ==
           [recorder EXCEPT
              !.starting = pending,
              !.streams = Append(@, "live"),
              !.streamRef = Some(stream),
              !.audioChunksRef = <<>>]
         withRecorder(state) ==
           [withStream EXCEPT
              !.mediaRecorders =
                Append(@, [state |-> state, stopQueued |-> FALSE,
                           stream |-> stream,
                           duration |-> recorder.starting[k].duration]),
              !.mediaRecorderRef = Some(Len(recorder.mediaRecorders) + 1)]
     IN  recorder' =
           CASE outcome = "denied" ->
                  startFailed([recorder EXCEPT !.starting = pending])
             [] outcome = "constructorThrows" -> startFailed(withStream)
             [] outcome = "startThrows" ->
                  startFailed(withRecorder("inactive"))
             [] OTHER ->
                  startTimer(
                    [withRecorder("recording") EXCEPT
                       !.isRecording = TRUE, !.isProcessing = FALSE])
  /\ recorderFrame

\* mediaRecorder.ondataavailable with data: the chunk of recorder m is pushed
\* onto the array audioChunksRef holds now.
ondataavailable(m) ==
  /\ m \in DOMAIN recorder.mediaRecorders
  /\ recorder.mediaRecorders[m].state = "recording"
  /\ Len(recorder.audioChunksRef) < MaxChunks
  /\ recorder' = [recorder EXCEPT !.audioChunksRef = Append(@, m)]
  /\ recorderFrame

\* The timer callback of setInterval.
tick ==
  /\ recorder.intervals > 0
  /\ recorder.startTimeRef # Null
  /\ recorder.startTimeRef[1] < MaxSeconds
  /\ recorder' =
       [recorder EXCEPT
          !.startTimeRef = Some(@[1] + 1),
          !.recordingDuration = recorder.startTimeRef[1] + 1]
  /\ recorderFrame

stopRecording(throws) ==
  /\ recorder' = stopRecordingOf(recorder, throws)
  /\ recorderFrame

\* The stop event of recorder m, after its last dataavailable event (with
\* data or without): the blob is built from the array audioChunksRef holds
\* now.
onstop(m, last) ==
  /\ m \in DOMAIN recorder.mediaRecorders
  /\ recorder.mediaRecorders[m].stopQueued
  /\ LET chunks ==
           IF last /\ Len(recorder.audioChunksRef) < MaxChunks
           THEN Append(recorder.audioChunksRef, m)
           ELSE recorder.audioChunksRef
     IN  recorder' =
           cleanupStream(
             [recorder EXCEPT
                !.audioChunksRef = chunks,
                !.mediaRecorders[m].stopQueued = FALSE,
                !.audioData =
                  Some([blob |-> chunks, size |-> Len(chunks),
                        duration |-> recorder.mediaRecorders[m].duration]),
                !.isProcessing = FALSE])
  /\ recorderFrame

resetRecording(throws) ==
  /\ recorder' = resetRecordingOf(recorder, throws)
  /\ recorderFrame

\* Both hooks as they are mounted.
InitHooks ==
  /\ ValidatorIdle
  /\ tz = 0
  /\ HooksIdle
  /\ ServiceEmpty

NextRecorder ==
  \/ startRecording
  \/ \E k \in 1..MaxRecordings, outcome \in StartOutcomes :
       getUserMedia(k, outcome)
  \/ \E m \in 1..MaxRecordings : ondataavailable(m)
  \/ tick
  \/ \E throws \in BOOLEAN : stopRecording(throws)
  \/ \E m \in 1..MaxRecordings, last \in BOOLEAN : onstop(m, last)
  \/ \E throws \in BOOLEAN : resetRecording(throws)

SpecRecorder == InitHooks /\ [][NextRecorder]_vars

(***************************************************************************)
(* useTranscriptionValidation.  The effect that validates the              *)
(* transcription runs after the render that follows a change of it; a      *)
(* submitRecord call is a frame of its own from its call to the end of     *)
(* its request.                                                            *)
(***************************************************************************)
MaxSubmits == 2

FormatError ==
  <<"Please ensure the transcription follows the required format.">>

SubmitError == <<"Failed to submit meeting record">>

\* What the request of submitMeetingRecord may end with: fetch rejects, or
\* a response with its status and its body.  The body is a JSON object with
\* its error (none, or one whose message may be the empty string), or a text
\* that is no JSON object: no text at all, a page of HTML, or null.
FetchFailed == <<"Failed to fetch">>

InvalidFormatMessage == <<"Invalid message format">>

EmptyBody == <<>>
HtmlBody == <<"<html>Bad Gateway</html>">>
NullBody == <<"null">>

Responses ==
  {[fetched |-> FALSE, ok |-> FALSE, text |-> Null, error |-> Null]} \cup
  [fetched : {TRUE}, ok : BOOLEAN, text : {Null},
   error : {Null, Some([message |-> <<>>]),
            Some([message |-> InvalidFormatMessage])}] \cup
  [fetched : {TRUE}, ok : BOOLEAN,
   text : {Some(EmptyBody), Some(HtmlBody), Some(NullBody)}, error : {Null}]

\* response.json() of a body that is no JSON text: the message of the
\* SyntaxError thrown, in the words of V8.
JsonSyntaxError(body) ==
  IF body = EmptyBody THEN <<"Unexpected end of JSON input">>
  ELSE <<"Unexpected token '<', \"<html>Bad \"... is not valid JSON">>

\* result.error of !response.ok and result.data when result is null: the
\* message of the TypeError thrown, in the words of V8.
NullResultError(response) ==
  IF response.ok
  THEN <<"Cannot read properties of null (reading 'data')">>
  ELSE <<"Cannot read properties of null (reading 'error')">>

\* result.error?.message || "Failed to submit meeting record"
ApiErrorMessage(response) ==
  IF response.error # Null /\ response.error[1].message # <<>>
  THEN response.error[1].message
  ELSE SubmitError

\* The message of what submitMeetingRecord throws, Null when it returns:
\* response.json() is awaited before response.ok is read.
submitMeetingRecord(response) ==
  CASE ~response.fetched -> Some(FetchFailed)
    [] response.text \in {Some(EmptyBody), Some(HtmlBody)} ->
         Some(JsonSyntaxError(response.text[1]))
    [] response.text = Some(NullBody) -> Some(NullResultError(response))
    [] ~response.ok -> Some(ApiErrorMessage(response))
    [] OTHER -> Null

\* The texts typed or transcribed, and the records handed to submitRecord.
FormTexts == {<<>>, <<" ">>, ValidText, ShortNameText, NoFormatText}

SubmitData ==
  [fullTranscription : {ValidText, NoFormatText},
   recordingDuration : {"00:05"}]

formFrame ==
  /\ UNCHANGED recorder
  /\ UNCHANGED <<validatorVars, serviceVars>>

setTranscription(txt) ==
  /\ form' = [form EXCEPT !.transcription = txt,
                          !.effectPending = @ \/ txt # form.transcription]
  /\ formFrame

\* The effect on [transcription].
validateEffect ==
  /\ form.effectPending
  /\ form' =
       IF trim(form.transcription) # <<>>
       THEN LET validated == validateTranscription(form.transcription)
            IN  [form EXCEPT !.validationResult = validated,
                             !.extractedData = validated.extractedData,
                             !.effectPending = FALSE]
       ELSE [form EXCEPT !.validationResult = IdleForm.validationResult,
                         !.extractedData = Null,
                         !.effectPending = FALSE]
  /\ formFrame

\* submitRecord without its guard: the record is sent whatever the hook
\* holds.
submitRecordUnguarded(data) ==
  /\ Len(form.submits) < MaxSubmits
  /\ form' = [form EXCEPT
                !.isSubmitting = TRUE, !.error = Null,
                !.submitSuccess = FALSE,
                !.sent = Append(@, data),
                !.submits = Append(@, [data |-> data, pc |-> "sending"])]
  /\ formFrame

\* submitRecord up to its return or its await of submitMeetingRecord.
submitRecord(data) ==
  /\ Len(form.submits) < MaxSubmits
  /\ form' =
       IF ~form.validationResult.isValid \/ form.extractedData = Null
       THEN [form EXCEPT
               !.error = Some(FormatError),
               !.submits = Append(@, [data |-> data, pc |-> "rejected"])]
       ELSE [form EXCEPT
               !.isSubmitting = TRUE, !.error = Null,
               !.submitSuccess = FALSE,
               !.sent = Append(@, data),
               !.submits = Append(@, [data |-> data, pc |-> "sending"])]
  /\ formFrame

\* The end of the request of call k: success and the timeout that clears the
\* form, or the message of the error thrown; isSubmitting is cleared in
\* both cases.
submitSettled(k, response) ==
  /\ k \in DOMAIN form.submits
  /\ form.submits[k].pc = "sending"
  /\ form' =
       IF submitMeetingRecord(response) = Null
       THEN [form EXCEPT !.submitSuccess = TRUE, !.timeouts = @ + 1,
                         !.isSubmitting = FALSE,
                         !.submits[k].pc = "succeeded"]
       ELSE [form EXCEPT !.error = submitMeetingRecord(response),
                         !.isSubmitting = FALSE,
                         !.submits[k].pc = "failed"]
  /\ formFrame

\* The setTimeout callback, 3 s after a success.
formTimeout ==
  /\ form.timeouts > 0
  /\ form' = [form EXCEPT
                !.timeouts = @ - 1,
                !.transcription = <<>>,
                !.effectPending = @ \/ form.transcription # <<>>,
                !.submitSuccess = FALSE]
  /\ formFrame

resetForm ==
  /\ form' = [form EXCEPT
                !.transcription = <<>>,
                !.effectPending = @ \/ form.transcription # <<>>,
                !.validationResult = IdleForm.validationResult,
                !.extractedData = Null, !.isSubmitting = FALSE,
                !.submitSuccess = FALSE, !.error = Null]
  /\ formFrame

NextForm ==
  \/ \E txt \in FormTexts : setTranscription(txt)
  \/ validateEffect
  \/ \E data \in SubmitData : submitRecord(data)
  \/ \E k \in 1..MaxSubmits, response \in Responses :
       submitSettled(k, response)
  \/ formTimeout
  \/ resetForm

SpecForm == InitHooks /\ [][NextForm]_vars

(***************************************************************************)
(* Properties                                                              *)
(***************************************************************************)
RecordIds == 1..Len(records)

\* The rows of the sheet that hold record id.
Pushes(id) == {k \in 1..Len(sink) : sink[k] = id}

\* C1: every persisted record is pushed to the external sink at most once,
\* over any interleaving of calls, background tasks and sync passes.
C1_PushedAtMostOnce == \A id \in RecordIds : Cardinality(Pushes(id)) <= 1

\* C2: every record with syncedToSheets = true has a googleSheetsRowId and a
\* sheetsLastSync, whichever path marked it synced.
C2_SyncedHasRowIdAndLastSync ==
  \A id \in RecordIds :
    records[id].syncedToSheets =>
      /\ records[id].googleSheetsRowId # Null
      /\ records[id].sheetsLastSync # Null

\* C3: the totalRecordings of a date is the number of createMeetingRecord
\* calls for that date that have succeeded, however the calls interleave:
\* every successful call adds exactly one, none is lost, and a date has a row
\* exactly when a call for it has succeeded.
StatDates == {now \div 24 : now \in Instants}

ReturnedFor(date) ==
  {c \in CallIds :
     /\ calls[c].pc = "returned"
     /\ daysFromCivil(calls[c].dateData[1].recordingDate) = date}

C3_OneIncrementPerCall ==
  /\ DOMAIN dailyStats \subseteq StatDates
  /\ \A date \in StatDates :
       IF ReturnedFor(date) = {} THEN date \notin DOMAIN dailyStats
       ELSE /\ date \in DOMAIN dailyStats
            /\ dailyStats[date].totalRecordings = Cardinality(ReturnedFor(date))

C3_Witness ==
  \E date \in DOMAIN dailyStats :
    /\ ReturnedFor(date) = CallIds
    /\ dailyStats[date].totalRecordings = Cardinality(CallIds)

\* C4: a call whose transcription validation rejects fails with the
\* validation error that carries the ValidationResult's message and errors
\* unchanged, and the step that rejects it leaves the records, the daily
\* statistics, the background tasks and the sink as they were; a call gets
\* past the validation only with a valid transcription.
C4_RejectionStep(c) ==
  LET validationResult ==
        validateTranscription(calls'[c].dto[1].fullTranscription)
  IN  IF validationResult.isValid
      THEN calls'[c].pc # "rejected"
      ELSE /\ calls'[c].pc = "rejected"
           /\ calls'[c].error[1].code = "INVALID_MESSAGE_FORMAT"
           /\ calls'[c].error[1].message = validationResult.message
           /\ calls'[c].error[1].details = validationResult.errors
           /\ UNCHANGED <<records, dailyStats, tasks, sink>>

C4_RejectionLeavesStorage ==
  [][\A c \in CallIds :
       calls[c].pc = "idle" /\ calls'[c].pc # "idle" => C4_RejectionStep(c)]_vars

C4_Witness ==
  \E c, d \in CallIds :
    /\ calls[c].pc = "rejected"
    /\ calls[c].error[1].details = Some(<<"Invalid speaker name">>)
    /\ calls[d].pc = "returned"
    /\ Len(records) = 1

\* C5: a failure inside the background task (of findUnique, of the push or
\* of the update) is contained in the task: the failing step changes no
\* record, no call and no statistics row, so it fails no createMeetingRecord
\* call, and a record whose task failed stays unsynced, and so among the
\* records syncToGoogleSheets selects, until a sync pass marks it.
C5_TaskFailureContained ==
  [][\A id \in DOMAIN tasks' :
       tasks'[id] = "failed" =>
         /\ (id \in DOMAIN tasks /\ tasks[id] # "failed" =>
               UNCHANGED <<records, calls, dailyStats>>)
         /\ (records'[id].googleSheetsRowId = Null =>
               /\ ~records'[id].syncedToSheets
               /\ id \in Unsynced(records'))]_vars

C5_Witness ==
  \E id \in DOMAIN tasks, c \in CallIds :
    /\ tasks[id] = "failed"
    /\ Pushes(id) # {}
    /\ ~records[id].syncedToSheets
    /\ calls[c].pc = "returned"
    /\ calls[c].meetingRecord[1].id = id

\* No invocation but p has been started.
NoOtherSync(p) == \A q \in PassIds \ {p} : passes[q].pc = "idle"

\* C6: a finished syncToGoogleSheets pass has gone through every fetched
\* record once, in order, whatever failed on the way, and synced + errors is
\* the number of records fetched; with no other sync running, the fetched
\* records with syncedToSheets = true are exactly those counted as synced.
C6_PassCountsEveryRecord ==
  \A p \in PassIds :
    LET pass == passes[p] IN
    /\ pass.pc \in {"push", "update"} =>
         /\ pass.i \in 1..Len(pass.batch)
         /\ Len(pass.log) = pass.i - 1
    /\ pass.pc = "done" =>
         /\ Len(pass.log) = Len(pass.batch)
         /\ pass.synced + pass.errors = Len(pass.batch)
         /\ pass.synced =
              Cardinality({i \in 1..Len(pass.batch) : pass.log[i] = "synced"})
         /\ NoOtherSync(p) =>
              \A i \in 1..Len(pass.batch) :
                records[pass.batch[i]].syncedToSheets
                  <=> pass.log[i] = "synced"

C6_Witness ==
  \E p \in PassIds :
    /\ NoOtherSync(p)
    /\ passes[p].pc = "done"
    /\ passes[p].log = <<"error", "synced", "error">>
    /\ passes[p].synced = 1
    /\ passes[p].errors = 2
    /\ ~records[passes[p].batch[1]].syncedToSheets
    /\ records[passes[p].batch[2]].syncedToSheets

\* C7: when syncToGoogleSheets is invoked again and again, every unsynced
\* record whose push succeeds when attempted is eventually synced, also when
\* the pushes of other records keep failing and more records are unsynced
\* than one batch holds.
C7_EventuallySynced ==
  \A id \in 1..MaxRecords :
    (id \in RecordIds /\ id \notin rejects)
      ~> (id \in RecordIds /\ records[id].syncedToSheets)

\* C8: the recordingDate of every record and its stored year, month, day and
\* dayOfWeek denote the same calendar day.
C8_DateFieldsAgree ==
  \A id \in RecordIds :
    LET r == records[id]
        date == civilFromDays(r.recordingDate)
    IN  /\ r.year = date.year
        /\ r.month = date.month
        /\ r.day = date.day
        /\ r.dayOfWeek = WeekdayNames[((r.recordingDate + 4) % 7) + 1]

\* C9: for every text that is empty or only white space, the validator
\* returns the neutral result: isValid = false, message "", extractedData
\* null, no errors list (and so never the format hint).
IsBlank(s) == \A k \in 1..Len(s) : s[k] \in WhiteSpace

NeutralResult ==
  [isValid |-> FALSE, message |-> <<>>, extractedData |-> Null,
   errors |-> Null]

C9_BlankIsNeutral == result # Null /\ IsBlank(text) => result[1] = NeutralResult

C9_Witness ==
  /\ result # Null
  /\ IsBlank(text)
  /\ Len(text) > 1
  /\ result[1] = NeutralResult

\* C10 as stated: every sentence built from the template with semantically
\* valid fields validates, whatever the letter case of the fixed words and
\* with or without one trailing period, and the period is not part of the
\* extracted location.
FieldsOf(in) ==
  [speakerName |-> in.speaker, groupNumber |-> in.group,
   personMet |-> in.person, location |-> in.place]

C10_ValidFieldsValidate ==
  /\ result # Null
  /\ input.kind = "template"
  /\ input.dots <= 1
  /\ validateExtractedData(FieldsOf(input)) = <<>>
  => /\ result[1].isValid
     /\ input.dots = 1 => result[1].extractedData[1].location = input.place

\* The delimiter phrase that follows a field begins inside the field.
EarlierDelimiter(field, pat) ==
  \E j \in 2..Len(field) : LitAt(field \o pat, j, pat)

\* The fields the pattern gives back as they are: no white space at the ends,
\* no line break, and no field holds the start of the phrase that follows it.
PlainFields(in) ==
  /\ \A f \in {in.speaker, in.group, in.person, in.place} :
       f = trim(f) /\ \A k \in 1..Len(f) : f[k] \notin LineTerminators
  /\ ~EarlierDelimiter(in.speaker, PatGroup)
  /\ ~EarlierDelimiter(in.group, PatMet)
  /\ ~EarlierDelimiter(in.person, PatAt)

\* C10, amended: a sentence built from the template with semantically valid
\* plain fields validates and gives back exactly these fields, whatever the
\* letter case of the fixed words, when exactly one trailing period ends it,
\* and also with no trailing period unless the location itself ends in a
\* period; the single trailing period is not part of the extracted location.
C10_PlainFieldsValidate ==
  /\ result # Null
  /\ input.kind = "template"
  /\ validateExtractedData(FieldsOf(input)) = <<>>
  /\ PlainFields(input)
  /\ \/ input.dots = 1
     \/ input.dots = 0 /\ input.place[Len(input.place)] # "."
  => /\ result[1].isValid
     /\ result[1].extractedData = Some(FieldsOf(input))

C10_Witness ==
  /\ result # Null
  /\ input.kind = "template"
  /\ PlainFields(input)
  /\ input.style = 2
  /\ input.dots = 1
  /\ input.lead # <<>>
  /\ result[1].isValid
  /\ result[1].extractedData[1].location = input.place


(***************************************************************************)
(* The template as a set of sentences: s is                                *)
(*   "my name is " A " and i belong to group " B " and today i met " C     *)
(*   " at " D, then nothing or one period,                                 *)
(* the fixed phrases in any letter case, A, B, C and D not empty and free  *)
(* of line breaks.  A split names where the three inner phrases begin and  *)
(* where D ends.                                                           *)
(***************************************************************************)
PhraseStarts(s, from, pat) ==
  {j \in (from + 1)..Len(s) : LitAt(s, j, pat) /\ DotSpan(s, from, j - 1)}

LocationStops(s, d) ==
  {e \in {Len(s) - 1, Len(s)} :
     /\ e >= d
     /\ DotSpan(s, d, e)
     /\ e = Len(s) - 1 => s[Len(s)] = "."}

TemplateSplits(s) ==
  IF ~LitAt(s, 1, PatMyNameIs) THEN {}
  ELSE
    UNION {UNION {UNION {{<<j1, j2, j3, e>> :
                           e \in LocationStops(s, j3 + Len(PatAt))} :
                         j3 \in PhraseStarts(s, j2 + Len(PatMet), PatAt)} :
                  j2 \in PhraseStarts(s, j1 + Len(PatGroup), PatMet)} :
           j1 \in PhraseStarts(s, Len(PatMyNameIs) + 1, PatGroup)}

\* C11: a text that is not blank and whose trimmed form is no sentence of the
\* template from its first to its last character gets isValid = false, no
\* extractedData, no errors and the format hint, which holds the template
\* string.
C11_NoMatchGivesHint ==
  /\ result # Null
  /\ trim(text) # <<>>
  /\ TemplateSplits(trim(text)) = {}
  => /\ ~result[1].isValid
     /\ result[1].extractedData = Null
     /\ result[1].errors = Null
     /\ result[1].message = FormatHint
     /\ \E k \in 1..Len(result[1].message) :
          result[1].message[k] =
            "My name is [name] and I belong to group [#] and today I met [name] at [location]."

C11_Witness ==
  /\ result # Null
  /\ text = PrefixedText
  /\ result[1].message = FormatHint
  /\ result[1].extractedData = Null

\* The split a backtracking matcher with lazy groups finds: the least one,
\* comparing first where A ends, then B, then C, then D.
SplitBefore(q, r) ==
  \E k \in 1..4 : q[k] < r[k] /\ \A h \in 1..(k - 1) : q[h] = r[h]

LeastSplit(s) ==
  CHOOSE q \in TemplateSplits(s) :
    \A r \in TemplateSplits(s) : r = q \/ SplitBefore(q, r)

\* The four fields of split q of sentence s, each trimmed.
SplitFields(s, q) ==
  [speakerName |-> trim(SubSeq(s, Len(PatMyNameIs) + 1, q[1] - 1)),
   groupNumber |-> trim(SubSeq(s, q[1] + Len(PatGroup), q[2] - 1)),
   personMet   |-> trim(SubSeq(s, q[2] + Len(PatMet), q[3] - 1)),
   location    |-> trim(SubSeq(s, q[3] + Len(PatAt), q[4]))]

\* The pieces of e1 + ", " + e2 + ... for the list E.
CommaSeparated(E) ==
  [k \in 1..(2 * Len(E) - 1) |->
     IF k % 2 = 1 THEN E[(k + 1) \div 2] ELSE ", "]

C12_IssuesResult(prefix) ==
  LET s == trim(text) IN
  /\ result # Null
  /\ s # <<>>
  /\ TemplateSplits(s) # {}
  /\ validateExtractedData(SplitFields(s, LeastSplit(s))) # <<>>
  => LET F == SplitFields(s, LeastSplit(s))
         E == validateExtractedData(F)
     IN  /\ ~result[1].isValid
         /\ result[1].extractedData = Some(F)
         /\ result[1].errors = Some(E)
         /\ result[1].message = <<prefix>> \o CommaSeparated(E)

\* C12 as stated: a sentence of the template with a field that fails its
\* check gets isValid = false, the four trimmed fields, the list of the
\* failures and the message "format correct but data has issues: " followed
\* by the failures joined by ", ".
C12_IssuesAsStated == C12_IssuesResult("format correct but data has issues: ")

\* C12, amended: the same with the message the code writes, which begins
\* "Format is correct but data has issues: ".
C12_IssuesReported ==
  C12_IssuesResult("Format is correct but data has issues: ")

C12_Witness ==
  /\ result # Null
  /\ input.kind = "template"
  /\ result[1].extractedData # Null
  /\ result[1].errors =
       Some(<<"Invalid speaker name", "Group number must be a valid number">>)
  /\ Len(result[1].message) = 4

(***************************************************************************)
(* validateExtractedData applied to four fields.  One field at a time runs *)
(* over its samples (names and locations at both ends of the length range  *)
(* and with each kind of last character, group strings of every shape)     *)
(* beside three good fields, and every mix of good and bad fields occurs.  *)
(***************************************************************************)
Fill(c, n) == [k \in 1..n |-> c]

NameTails ==
  {"b", "Z", " ", "\n", "U+000B", "U+2028", "-", ".", "'", "7", ",", "_"}

NameFieldSamples ==
  {<<>>} \cup {Fill("a", n) \o <<x>> : n \in {0, 1, 98, 99, 100}, x \in NameTails}

GroupFieldSamples ==
  {<<>>, <<"1">>, <<"9", "9", "9">>, <<"0">>, <<"1", "0", "0", "0">>, <<"a", "b", "c">>, <<"-", "5">>, <<"+", "5">>, <<"0", "0", "7">>, <<"5", "a", "b", "c">>,
   <<"1", "2", ".", "5">>, <<"5", " ", "6">>, <<"1", "e", "2">>,
   <<"U+000B", "5">>, <<"U+00A0", "0", "7">>, <<"5", "U+2028">>}

LocationTails ==
  {"b", "Z", "7", " ", "\t", "U+3000", "-", ".", ",", "'", "!", "_"}

LocationFieldSamples ==
  {<<>>} \cup
    {Fill("a", n) \o <<x>> : n \in {0, 1, 198, 199, 200}, x \in LocationTails}

GoodName == <<"J", "o", " ", "A", "n", "n">>
BadName == <<"R", "2">>
GoodGroup == <<"5">>
BadGroup == <<"a", "b", "c">>
GoodLocation == <<"R", "o", "o", "m", " ", "2", ",", " ", "M", "a", "i", "n", " ", "S", "t", ".">>
BadLocation == <<"x", "!">>

FieldsInput(speaker, group, person, place) ==
  [kind |-> "fields", speaker |-> speaker, group |-> group,
   person |-> person, place |-> place, style |-> 0, dots |-> 0,
   lead |-> <<>>, trail |-> <<>>, raw |-> <<>>]

FieldInputs ==
  {FieldsInput(a, GoodGroup, GoodName, GoodLocation) : a \in NameFieldSamples}
    \cup {FieldsInput(GoodName, b, GoodName, GoodLocation) :
            b \in GroupFieldSamples}
    \cup {FieldsInput(GoodName, GoodGroup, c, GoodLocation) :
            c \in NameFieldSamples}
    \cup {FieldsInput(GoodName, GoodGroup, GoodName, d) :
            d \in LocationFieldSamples}
    \cup {FieldsInput(a, b, c, d) :
            a \in {GoodName, BadName}, b \in {GoodGroup, BadGroup},
            c \in {GoodName, BadName}, d \in {GoodLocation, BadLocation}}

InitFields ==
  /\ input \in FieldInputs
  /\ text = <<>>
  /\ result = Null
  /\ tz = 0
  /\ HooksIdle
  /\ ServiceEmpty

\* result becomes the list validateExtractedData returns for the fields.
CheckFields ==
  /\ result = Null
  /\ result' = Some(validateExtractedData(FieldsOf(input)))
  /\ UNCHANGED <<input, text>>
  /\ UNCHANGED <<serviceVars, hookVars>>

NextFields == CheckFields

SpecFields == InitFields /\ [][NextFields]_vars

\* The error is in the list the check returned.
Reports(error) == \E k \in 1..Len(result[1]) : result[1][k] = error

\* C13: the group strings accepted are exactly those that are, as a whole, a
\* base-10 integer (an optional sign and digits, nothing else) n with
\* 0 < n <= 999; every other string is reported as "Group number must be a
\* valid number".
WholeInteger(str) ==
  LET body == IF str # <<>> /\ Head(str) \in {"-", "+"} THEN Tail(str)
              ELSE str
  IN  body # <<>> /\ \A k \in 1..Len(body) : body[k] \in Digits

IntegerValue(str) ==
  IF Head(str) = "-" THEN 0 - digitRun(Tail(str), 0)
  ELSE IF Head(str) = "+" THEN digitRun(Tail(str), 0)
  ELSE digitRun(str, 0)

GroupInRange(str) ==
  WholeInteger(str) /\ IntegerValue(str) > 0 /\ IntegerValue(str) <= 999

C13_WholeIntegerGroups ==
  result # Null =>
    /\ isValidGroupNumber(input.group) <=> GroupInRange(input.group)
    /\ Reports("Group number must be a valid number")
         <=> ~GroupInRange(input.group)

\* C14: a speakerName or personMet is accepted iff it has 2 to 100
\* characters, each a letter, white space, hyphen, period or apostrophe; so
\* a name with a digit is rejected; the rejection reads "Invalid speaker
\* name" for speakerName and "Invalid person name" for personMet.
NameAsSpecified(name) ==
  /\ Len(name) \in 2..100
  /\ \A k \in 1..Len(name) :
       \/ name[k] \in LowerLetters \cup UpperLetters
       \/ name[k] \in WhiteSpace
       \/ name[k] \in {"-", ".", "'"}

C14_NamesAccepted ==
  result # Null =>
    /\ isValidName(input.speaker) <=> NameAsSpecified(input.speaker)
    /\ isValidName(input.person) <=> NameAsSpecified(input.person)
    /\ Reports("Invalid speaker name") <=> ~NameAsSpecified(input.speaker)
    /\ Reports("Invalid person name") <=> ~NameAsSpecified(input.person)
    /\ \A name \in {input.speaker, input.person} :
         (\E k \in 1..Len(name) : name[k] \in Digits) => ~isValidName(name)

C14_Witness ==
  /\ result # Null
  /\ input.speaker = GoodName
  /\ Len(input.person) = 101
  /\ input.person[101] = "b"
  /\ result[1] = <<"Invalid person name">>

\* C15: a location is accepted iff it has 2 to 200 characters, each a letter,
\* a digit, white space, hyphen, period, comma or apostrophe; every other
\* location is reported as "Invalid location".
LocationAsSpecified(location) ==
  /\ Len(location) \in 2..200
  /\ \A k \in 1..Len(location) :
       \/ location[k] \in LowerLetters \cup UpperLetters \cup Digits
       \/ location[k] \in WhiteSpace
       \/ location[k] \in {"-", ".", ",", "'"}

C15_LocationsAccepted ==
  result # Null =>
    /\ isValidLocation(input.place) <=> LocationAsSpecified(input.place)
    /\ Reports("Invalid location") <=> ~LocationAsSpecified(input.place)

C15_Witness ==
  /\ result # Null
  /\ Len(input.place) = 200
  /\ input.place[200] = ","
  /\ result[1] = <<>>

\* C19: validateExtractedData runs all four checks whatever the earlier ones
\* gave and reports one error for each failing field, in the order speaker
\* name, group number, person name, location: the list is empty iff the four
\* fields pass and has four entries when the four fail.
FieldFailures ==
  <<[failed |-> ~isValidName(input.speaker),
     error  |-> "Invalid speaker name"],
    [failed |-> ~isValidGroupNumber(input.group),
     error  |-> "Group number must be a valid number"],
    [failed |-> ~isValidName(input.person),
     error  |-> "Invalid person name"],
    [failed |-> ~isValidLocation(input.place),
     error  |-> "Invalid location"]>>

IsFailure(check) == check.failed

C19_EveryCheckReported ==
  result # Null =>
    LET failures == SelectSeq(FieldFailures, IsFailure) IN
    /\ Len(result[1]) = Len(failures)
    /\ \A k \in 1..Len(failures) : result[1][k] = failures[k].error
    /\ result[1] = <<>> <=> \A k \in 1..4 : ~FieldFailures[k].failed
    /\ (\A k \in 1..4 : FieldFailures[k].failed) => Len(result[1]) = 4

C19_Witness ==
  /\ result # Null
  /\ result[1] = <<"Invalid speaker name", "Group number must be a valid number",
                   "Invalid person name", "Invalid location">>

\* C18: for a text whose trimmed form is a sentence of the template, with or
\* without the final period, extractedData holds the four fields, trimmed
\* and in the letter case of the text; where a phrase between the fields
\* occurs more than once, A, then B, then C is the shortest span that lets
\* the whole sentence match, so that the location may contain " at ".
C18_FieldsOfLeastSplit ==
  LET s == trim(text) IN
  /\ result # Null
  /\ s # <<>>
  /\ TemplateSplits(s) # {}
  => /\ result[1].extractedData = Some(SplitFields(s, LeastSplit(s)))
     /\ \A f \in {result[1].extractedData[1].speakerName,
                  result[1].extractedData[1].groupNumber,
                  result[1].extractedData[1].personMet,
                  result[1].extractedData[1].location} : f = trim(f)
     /\ (/\ input.kind = "template"
         /\ PlainFields(input)
         /\ \/ input.dots = 1
            \/ input.dots = 0 /\ input.place[Len(input.place)] # ".")
        => result[1].extractedData = Some(FieldsOf(input))

C18_Witness ==
  /\ result # Null
  /\ input.kind = "template"
  /\ input.style = 2
  /\ input.dots = 0
  /\ Cardinality(TemplateSplits(trim(text))) > 1
  /\ result[1].extractedData[1].speakerName = <<"J", "o", "h", "n", " ", "S", "m", "i", "t", "h">>
  /\ result[1].extractedData[1].personMet = <<"S", "a", "r", "a", "h", " ", "J", "o", "h", "n", "s", "o", "n">>
  /\ result[1].extractedData[1].location = <<"c", "a", "f", "e", " ", "a", "t", " ", "n", "o", "o", "n">>

\* C16: the record a successful createMeetingRecord returns, the record it
\* stored and the stored record read back through formatMeetingRecord carry
\* the speakerName, groupNumber, personMet and location that validation
\* extracted from the transcription; groupNumber is the extracted string.
SameFields(record, data) ==
  /\ record.speakerName = data.speakerName
  /\ record.groupNumber = data.groupNumber
  /\ record.personMet = data.personMet
  /\ record.location = data.location

C16_FieldsRoundTrip ==
  \A c \in CallIds :
    calls[c].pc = "returned" =>
      LET validationResult == calls[c].validationResult[1]
          data == validationResult.extractedData[1]
          id == calls[c].response[1].id
      IN  /\ validationResult.isValid
          /\ SameFields(calls[c].response[1], data)
          /\ id \in RecordIds
          /\ SameFields(records[id], data)
          /\ SameFields(formatMeetingRecord(records[id]), data)
          /\ calls[c].response[1].groupNumber = <<"5">>

C16_Witness ==
  \E c \in CallIds :
    /\ calls[c].pc = "returned"
    /\ calls[c].response[1].speakerName = <<"J", "o">>
    /\ calls[c].response[1].groupNumber = <<"5">>
    /\ calls[c].response[1].personMet = <<"A", "l">>
    /\ calls[c].response[1].location = <<"h", "o", "m", "e">>
    /\ records[calls[c].response[1].id].syncedToSheets

\* C20: a call that has returned has its record counted in the statistics
\* row of its date; the return waits for no step of the background task (a
\* call at its upsert can finish wherever the task stands), and what is
\* returned shows nothing of the push: syncedToSheets is false and there is
\* neither a googleSheetsRowId nor a sheetsLastSync.
C20_CountedNotSynced ==
  \A c \in CallIds :
    /\ calls[c].pc = "upserting" => ENABLED finishCreate(c, TRUE)
    /\ calls[c].pc = "returned" =>
         LET date == daysFromCivil(calls[c].dateData[1].recordingDate) IN
         /\ date \in DOMAIN dailyStats
         /\ dailyStats[date].totalRecordings >= Cardinality(ReturnedFor(date))
         /\ ~calls[c].response[1].syncedToSheets
         /\ calls[c].response[1].googleSheetsRowId = Null
         /\ calls[c].response[1].sheetsLastSync = Null

C20_Witness ==
  \E c \in CallIds :
    /\ calls[c].pc = "returned"
    /\ tasks[calls[c].response[1].id] = "scheduled"
    /\ sink = <<>>
    /\ dailyStats[daysFromCivil(calls[c].dateData[1].recordingDate)]
         .totalRecordings = 1

\* The page and the limit of a listing, and the number of matching records
\* that count answered with.
PageOf(l) == IF l.query.page = Null THEN 1 ELSE l.query.page[1]
LimitOf(l) == IF l.query.limit = Null THEN 10 ELSE l.query.limit[1]
TotalOf(l) == l.total[1]

\* The least number of pages of LimitOf(l) records that hold TotalOf(l).
PagesFor(l) ==
  Min({n \in 0..TotalOf(l) : n * LimitOf(l) >= TotalOf(l)})

PaginationAsStated(l) ==
  /\ l.skip = (PageOf(l) - 1) * LimitOf(l)
  /\ l.outcome.kind = "returned"
  /\ LET pagination == l.outcome.response.pagination
     IN  /\ pagination.page = PageOf(l)
         /\ pagination.limit = LimitOf(l)
         /\ pagination.total = TotalOf(l)
         /\ pagination.totalPages = PagesFor(l)
         /\ pagination.hasNext = (PageOf(l) < PagesFor(l))
         /\ pagination.hasPrev = (PageOf(l) > 1)
         /\ pagination.hasNext <=> l.skip + LimitOf(l) < TotalOf(l)

\* C17: every getMeetings call whose storage reads succeed, for a page >= 1,
\* a limit >= 1 and any number of matching records, skips (page-1)*limit
\* records and returns the pagination with total, totalPages =
\* ceil(total/limit), hasNext = (page < totalPages), hasPrev = (page > 1),
\* hasNext being true exactly when skip + limit < total.
C17_PaginationReturned ==
  listing # Null /\ listing[1].found # Null /\ listing[1].total # Null =>
    PaginationAsStated(listing[1])

\* The same of the calls that return.
PaginationOfReturned ==
  listing # Null /\ listing[1].outcome.kind = "returned" =>
    PaginationAsStated(listing[1])

\* A step of pass p that fetches its batch, and one that pushes a record.
FetchStep(p) ==
  /\ passes[p].pc \in {"idle", "done", "threw"}
  /\ passes'[p].pc \in {"push", "done"}
  /\ passes'[p] # passes[p]

PushStep(p) == passes[p].pc = "push" /\ passes'[p].pc = "update"

InBatch(batch, id) == \E k \in 1..Len(batch) : batch[k] = id

\* C21: a pass fetches at most BatchSize records (take: 100), each
\* unsynced when fetched and none twice, in non-decreasing recordingDate
\* order; an unsynced record left out of the batch is no older than any
\* record of the batch; the records are pushed in the order of the batch, so
\* when a record is pushed every fetched record with an earlier recordingDate
\* had its turn before, whatever the order of creation.
C21_OldestPushedFirst ==
  [][\A p \in PassIds :
       /\ FetchStep(p) =>
            LET batch == passes'[p].batch
            IN  /\ Len(batch) <= BatchSize
                /\ \A k \in 1..Len(batch) :
                     /\ batch[k] \in RecordIds
                     /\ ~records[batch[k]].syncedToSheets
                /\ \A j, k \in 1..Len(batch) :
                     j < k =>
                       /\ batch[j] # batch[k]
                       /\ records[batch[j]].recordingDate
                            <= records[batch[k]].recordingDate
                /\ \A id \in RecordIds :
                     ~records[id].syncedToSheets /\ ~InBatch(batch, id) =>
                       /\ Len(batch) = BatchSize
                       /\ \A k \in 1..Len(batch) :
                            records[batch[k]].recordingDate
                              <= records[id].recordingDate
       /\ PushStep(p) =>
            LET batch == passes[p].batch
                pushed == sink'[Len(sink')]
            IN  /\ sink' = Append(sink, pushed)
                /\ InBatch(batch, pushed)
                /\ \A k \in 1..Len(batch) :
                     records[batch[k]].recordingDate
                       < records[pushed].recordingDate =>
                         k <= Len(passes[p].log)]_vars

\* One more record than a batch holds is unsynced and the records were
\* submitted newest first; the pass fetched the BatchSize oldest, the last
\* created first, has had its turn at that one and is at the second, and the
\* newest record waits for a later pass.
C21_Witness ==
  /\ Len(records) = BatchSize + 1
  /\ Len(passes[1].batch) = BatchSize
  /\ passes[1].batch[1] = BatchSize + 1
  /\ passes[1].batch[BatchSize] = 2
  /\ passes[1].pc = "push"
  /\ passes[1].i = 2
  /\ Len(passes[1].log) = 1
  /\ ~records[1].syncedToSheets
  /\ records[BatchSize + 1].recordingDate < records[BatchSize].recordingDate
  /\ records[2].recordingDate < records[1].recordingDate

FirstRow ==
  [totalRecordings |-> 1, successfulRecordings |-> 1, failedRecordings |-> 0,
   uniqueGroups |-> 1, uniqueSpeakers |-> 1, averageDuration |-> 0]

\* The step in which call c gets its statistics update done and returns.
UpsertStep(c) == calls[c].pc = "upserting" /\ calls'[c].pc = "returned"

\* C22: the statistics update of a call for date d changes the row of d and
\* no other: a date without a row gets the row of a first recording
\* (1, 1, 0, 1, 1, 0); a date with a row has totalRecordings and
\* successfulRecordings one higher and every other field as before, so
\* uniqueGroups and uniqueSpeakers stay 1; nothing else changes a row.
C22_UpsertCountsOne ==
  [][/\ dailyStats' # dailyStats => \E c \in CallIds : UpsertStep(c)
     /\ \A c \in CallIds :
          UpsertStep(c) =>
            LET d == daysFromCivil(calls[c].dateData[1].recordingDate)
            IN  /\ DOMAIN dailyStats' = DOMAIN dailyStats \cup {d}
                /\ \A e \in DOMAIN dailyStats :
                     e # d => dailyStats'[e] = dailyStats[e]
                /\ IF d \in DOMAIN dailyStats
                   THEN dailyStats'[d] =
                          [dailyStats[d] EXCEPT
                             !.totalRecordings = @ + 1,
                             !.successfulRecordings = @ + 1]
                   ELSE dailyStats'[d] = FirstRow
                /\ dailyStats'[d].uniqueGroups = 1
                /\ dailyStats'[d].uniqueSpeakers = 1]_vars

\* Two speakers of two groups recorded on one date: its row counts two
\* recordings, one group and one speaker.
C22_Witness ==
  /\ Len(records) = 2
  /\ records[1].recordingDate = records[2].recordingDate
  /\ records[1].groupNumber # records[2].groupNumber
  /\ records[1].speakerName # records[2].speakerName
  /\ \A c \in CallIds : calls[c].pc = "returned"
  /\ dailyStats[records[1].recordingDate] =
       [FirstRow EXCEPT !.totalRecordings = 2, !.successfulRecordings = 2]

\* The steps that write syncedToSheets = true to record id: the update of
\* its background task and the update of a pass at that record.
TaskWrites(id) ==
  id \in DOMAIN tasks /\ tasks[id] = "pushed" /\ tasks'[id] = "done"

PassWrites(p, id) ==
  /\ passes[p].pc = "update"
  /\ passes[p].batch[passes[p].i] = id
  /\ passes'[p].synced = passes[p].synced + 1

\* C23: a record is created with syncedToSheets = false, the flag never goes
\* from true back to false, and true is written to it at most once: no
\* update writes true to a record that is already marked synced.
C23_SyncedWrittenOnce ==
  [][/\ \A id \in DOMAIN records' :
          id \notin DOMAIN records => ~records'[id].syncedToSheets
     /\ \A id \in DOMAIN records :
          /\ records[id].syncedToSheets => records'[id].syncedToSheets
          /\ TaskWrites(id) \/ (\E p \in PassIds : PassWrites(p, id)) =>
               ~records[id].syncedToSheets]_vars

\* A step of a background task or of a sync pass.
SyncStep == calls' = calls /\ (tasks' # tasks \/ passes' # passes)

\* The records a sync operation is at: the record of a task that has pushed,
\* and the record of the current iteration of a pass.
BeingSynced(id) ==
  \/ id \in DOMAIN tasks /\ tasks[id] = "pushed"
  \/ \E p \in PassIds :
       passes[p].pc = "update" /\ passes[p].batch[passes[p].i] = id

\* C24: a step of a background task or of a sync pass changes no
\* DailyStatistics row, creates no record, and changes of the records only
\* syncedToSheets, googleSheetsRowId and sheetsLastSync of the record it
\* syncs: every other field of every record stays as written at creation.
C24_SyncFrame ==
  [][SyncStep =>
       /\ dailyStats' = dailyStats
       /\ DOMAIN records' = DOMAIN records
       /\ \A id \in DOMAIN records :
            /\ records'[id] =
                 [records[id] EXCEPT
                    !.syncedToSheets = records'[id].syncedToSheets,
                    !.googleSheetsRowId = records'[id].googleSheetsRowId,
                    !.sheetsLastSync = records'[id].sheetsLastSync]
            /\ records'[id] # records[id] => BeingSynced(id)]_vars

\* Two records of one date, the first synced by a pass and the second, which
\* the call created, by its background task, both as they were created but
\* for the sync fields, and the row of their date counting the two.
C24_Witness ==
  /\ Len(records) = 2
  /\ records[1].syncedToSheets /\ records[1].googleSheetsRowId # Null
  /\ records[2].syncedToSheets /\ records[2].googleSheetsRowId = Null
  /\ \A id \in {1, 2} :
       /\ records[id].speakerName = <<"J", "o">>
       /\ records[id].status = "SUBMITTED"
       /\ records[id].processingStatus = "PENDING"
  /\ calls[1].pc = "returned"
  /\ records[1].recordingDate = records[2].recordingDate
  /\ dailyStats[records[1].recordingDate].totalRecordings = 2

\* C25: every getMeetings call whose storage reads succeed and whose page
\* holds at least one matching record returns, with each record of the page
\* formatted by formatMeetingRecord, in the order of the page, and with the
\* pagination metadata.
C25_PageFormatted ==
  /\ listing # Null
  /\ listing[1].found # Null
  /\ listing[1].total # Null
  /\ listing[1].found[1] # <<>>
  =>
    /\ listing[1].outcome.kind = "returned"
    /\ listing[1].outcome.response.success
    /\ listing[1].outcome.response.data =
         [k \in 1..Len(listing[1].found[1]) |->
            formatMeetingRecord(listing[1].found[1][k])]
    /\ listing[1].outcome.response.pagination.page = PageOf(listing[1])
    /\ listing[1].outcome.response.pagination.limit = LimitOf(listing[1])
    /\ listing[1].outcome.response.pagination.total = TotalOf(listing[1])
    /\ listing[1].outcome.response.pagination.totalPages
         = PagesFor(listing[1])

\* The records that call c has persisted.
PersistedBy(c) ==
  IF calls[c].meetingRecord = Null THEN {}
  ELSE {calls[c].meetingRecord[1].id} \cap DOMAIN records

\* C26: a createMeetingRecord call that has thrown to its caller (rejected
\* by the validation, or failed at a storage step) has persisted no record
\* and the sink holds no row of a record of that call.
C26_FailureLeavesNothing ==
  \A c \in CallIds :
    calls[c].pc \in {"rejected", "failed"} =>
      /\ PersistedBy(c) = {}
      /\ \A k \in 1..Len(sink) : sink[k] \notin PersistedBy(c)

\* The recordings the statistics count for date d, and the persisted records
\* of that date.
Counted(d) ==
  IF d \in DOMAIN dailyStats THEN dailyStats[d].totalRecordings ELSE 0

RecordsOn(d) == {id \in DOMAIN records : records[id].recordingDate = d}

Dates == DOMAIN dailyStats \cup {records[id].recordingDate : id \in DOMAIN records}

\* C27: for every date the statistics count at most the persisted records of
\* that date, and exactly those when no createMeetingRecord call is between
\* its insert and its statistics update and none has failed; every row has
\* successfulRecordings = totalRecordings and failedRecordings = 0.
C27_StatsCountRecords ==
  /\ \A d \in Dates : Counted(d) <= Cardinality(RecordsOn(d))
  /\ (\A c \in CallIds : calls[c].pc \notin {"created", "upserting", "failed"}) =>
       \A d \in Dates : Counted(d) = Cardinality(RecordsOn(d))
  /\ \A d \in DOMAIN dailyStats :
       /\ dailyStats[d].successfulRecordings = dailyStats[d].totalRecordings
       /\ dailyStats[d].failedRecordings = 0

\* Two calls for one date have returned, both records are persisted and the
\* row of the date counts both.
C27_Witness ==
  /\ \A c \in CallIds : calls[c].pc = "returned"
  /\ Len(records) = 2
  /\ records[1].recordingDate = records[2].recordingDate
  /\ Counted(records[1].recordingDate) = 2

\* C28: the result for a text with white space before and after it is the
\* result for the text itself: isValid, message, extractedData and errors
\* are the same.
C28_PaddingIgnored ==
  result # Null => result[1] = validateTranscription(input.raw)

\* A valid sentence validated with line breaks and blanks before it and a
\* tab and a line break after it.
C28_Witness ==
  /\ result # Null
  /\ input.lead = <<"\n", " ", " ">>
  /\ input.trail = <<"\t", "\n">>
  /\ text # input.raw
  /\ input.raw = ValidText
  /\ result[1].isValid
  /\ result[1].extractedData[1].location = <<"h", "o", "m", "e">>

\* resetRecording was called after the last recording started and
\* startRecording has not been called since: only resetRecording clears
\* mediaRecorderRef, a startRecording call is waiting for the microphone, has
\* set mediaRecorderRef, or has set the error.
AfterReset ==
  /\ recorder.mediaRecorders # <<>>
  /\ recorder.mediaRecorderRef = Null
  /\ recorder.starting = <<>>
  /\ recorder.error = Null

\* C29: after resetRecording, also when it was called while a recording was
\* in progress, and until startRecording is called again, audioData is null
\* and isProcessing and isRecording are false: the onstop callback of the
\* cancelled recording does not repopulate audioData.
C29_ResetStaysReset ==
  AfterReset =>
    /\ recorder.audioData = Null
    /\ ~recorder.isProcessing
    /\ ~recorder.isRecording

\* The submitRecord call made in this step, if one is made.
SubmitStep == Len(form'.submits) = Len(form.submits) + 1

\* C30: a submitRecord call sends its record to the API exactly when the
\* validation result the hook holds is valid and extractedData is not null;
\* otherwise it sets the error message, sends nothing and leaves isSubmitting
\* and submitSuccess as they are.  Nothing but a submitRecord call sends.
C30_SubmitGuarded ==
  [][/\ form'.sent # form.sent => SubmitStep
     /\ SubmitStep =>
          LET call == form'.submits[Len(form'.submits)]
          IN  IF form.validationResult.isValid /\ form.extractedData # Null
              THEN /\ call.pc = "sending"
                   /\ form'.sent = Append(form.sent, call.data)
                   /\ form'.isSubmitting
              ELSE /\ call.pc = "rejected"
                   /\ form'.sent = form.sent
                   /\ form'.error = Some(FormatError)
                   /\ form'.isSubmitting = form.isSubmitting
                   /\ form'.submitSuccess = form.submitSuccess]_vars

\* A call was rejected while the request of an earlier call was under way:
\* one record was sent, the error is set and isSubmitting is still true.
C30_Witness ==
  /\ Len(form.submits) = 2
  /\ form.submits[1].pc = "sending"
  /\ form.submits[2].pc = "rejected"
  /\ form.sent = <<form.submits[1].data>>
  /\ form.error = Some(FormatError)
  /\ form.isSubmitting
  /\ ~form.validationResult.isValid
====
